---- MODULE Spec2Model ----
(***************************************************************************)
(* Model of claude-deep-insights, stage 1 (scripts/preprocess.py):         *)
(* process_session compacts one session log into a bounded summary, and    *)
(* main runs it over the discovered sessions with a file cache of          *)
(* summaries and a manifest.                                               *)
(*                                                                         *)
(* Strings are run-length encoded: a Python str is a sequence of runs      *)
(* <<c, n>> (character c repeated n >= 1 times, adjacent runs of distinct  *)
(* characters), so that 500-character texts stay small values.  JSON       *)
(* values are tagged records: [t |-> "str", s |-> runs], [t |-> "list",    *)
(* l |-> seq], [t |-> "dict", o |-> function on keys], [t |-> "num",       *)
(* n |-> int], [t |-> "null"]; identifier-valued strings that the code     *)
(* only compares for equality (record kinds, block types, tool names) are  *)
(* atoms [t |-> "str", a |-> "name"].                                      *)
(***************************************************************************)
EXTENDS Integers, Sequences, FiniteSets, TLC

(***************************************************************************)
(* Configuration constants, preprocess.py lines 23-27.                     *)
(***************************************************************************)
MAX_TEXT_PER_MESSAGE == 500
MAX_TOOL_RESULT_CHARS == 200
MAX_CONVERSATION_EXCHANGES == 40
MAX_TOOL_DETAILS == 30
MAX_FILES_TOUCHED == 30
\* The literal caps that the code writes inline.
SUMMARY_TEXT_CAP == 1000
THINKING_PREVIEW_CAP == 150
TASK_DESCRIPTION_CAP == 100
TASK_SUBJECT_CAP == 100
TOP_TOOLS_CAP == 5

(***************************************************************************)
(* Python str, run-length encoded.                                         *)
(***************************************************************************)
Rep(c, n) == IF n = 0 THEN << >> ELSE << <<c, n>> >>

RECURSIVE StrLen(_)
StrLen(s) == IF s = << >> THEN 0 ELSE s[1][2] + StrLen(Tail(s))

\* s + t
Cat(s, t) ==
  IF s = << >> THEN t
  ELSE IF t = << >> THEN s
  ELSE IF s[Len(s)][1] = t[1][1]
       THEN SubSeq(s, 1, Len(s) - 1)
              \o << <<t[1][1], s[Len(s)][2] + t[1][2]>> >> \o Tail(t)
       ELSE s \o t

\* A literal, from its characters.
RECURSIVE Lit(_)
Lit(cs) == IF cs = << >> THEN << >> ELSE Cat(Rep(cs[1], 1), Lit(Tail(cs)))

\* s[:n]
RECURSIVE Slice(_, _)
Slice(s, n) ==
  IF s = << >> \/ n <= 0 THEN << >>
  ELSE IF s[1][2] >= n THEN << <<s[1][1], n>> >>
  ELSE << s[1] >> \o Slice(Tail(s), n - s[1][2])

IsSpace(c) == c \in {" ", "\t", "\n"}

\* s.strip()
RECURSIVE LStrip(_)
LStrip(s) == IF s # << >> /\ IsSpace(s[1][1]) THEN LStrip(Tail(s)) ELSE s
RECURSIVE RStrip(_)
RStrip(s) ==
  IF s # << >> /\ IsSpace(s[Len(s)][1]) THEN RStrip(SubSeq(s, 1, Len(s) - 1)) ELSE s
Strip(s) == RStrip(LStrip(s))

\* c in s
Contains(s, c) == \E i \in 1..Len(s) : s[i][1] = c

\* Code-point order of the characters the modelled inputs use.
CharOrder == <<"\t", "\n", " ", ".", "/", "0", "1", ":", "A", "B", "Z", "[", "]", "a", "b", "z">>
Ord(c) == CHOOSE i \in 1..Len(CharOrder) : CharOrder[i] = c

\* s < t, Python's lexicographic order on str
RECURSIVE StrLess(_, _)
StrLess(s, t) ==
  IF t = << >> THEN FALSE
  ELSE IF s = << >> THEN TRUE
  ELSE IF s[1][1] # t[1][1] THEN Ord(s[1][1]) < Ord(t[1][1])
  ELSE IF s[1][2] = t[1][2] THEN StrLess(Tail(s), Tail(t))
  ELSE IF s[1][2] < t[1][2]
       THEN StrLess(Tail(s), << <<t[1][1], t[1][2] - s[1][2]>> >> \o Tail(t))
       ELSE StrLess(<< <<s[1][1], s[1][2] - t[1][2]>> >> \o Tail(s), Tail(t))

\* e, once v has its value: an argument is evaluated when it is first used,
\* so that a loop handing on its accumulator unevaluated would be unwound
\* only at its end, as deep as the loop is long.
Then(v, e) == IF v = v THEN e ELSE e

\* sorted(S) for a set of str: a str stands after the strs less than it.
SortedStrs(S) ==
  LET before == [x \in S |-> Cardinality({y \in S : StrLess(y, x)})]
  IN  Then(before, [i \in 1..Cardinality(S) |-> CHOOSE x \in S : before[x] = i - 1])

\* Mutant: the slice is dropped.
TakeAll(seq, n) == seq

\* seq[:n] for a list
Take(seq, n) == SubSeq(seq, 1, IF Len(seq) < n THEN Len(seq) ELSE n)

(***************************************************************************)
(* JSON values.                                                            *)
(***************************************************************************)
JNull == [t |-> "null"]
JStr(s) == [t |-> "str", s |-> s]
Atom(a) == [t |-> "str", a |-> a]
JNum(n) == [t |-> "num", n |-> n]
JList(l) == [t |-> "list", l |-> l]
JDict(o) == [t |-> "dict", o |-> o]
EmptyDict == JDict([k \in {} |-> JNull])

IsStr(v) == v.t = "str"
IsList(v) == v.t = "list"
IsDict(v) == v.t = "dict"

\* d.get(k, default), d a dict
Get(d, k, default) == IF k \in DOMAIN d.o THEN d.o[k] ELSE default

IsAtom(v) == v.t = "str" /\ "a" \in DOMAIN v

\* str(v): a str is itself, None prints as "None"; the modelled inputs hold
\* no other type (and no atom) where the code applies str().
PyStr(v) ==
  IF IsStr(v) THEN v.s ELSE Lit(<<"N", "o", "n", "e">>)

\* bool(v), for the values the code tests
Truthy(v) ==
  CASE v.t = "null" -> FALSE
    [] v.t = "str"  -> IsAtom(v) \/ v.s # << >>
    [] v.t = "num"  -> v.n # 0
    [] v.t = "list" -> v.l # << >>
    [] v.t = "dict" -> DOMAIN v.o # {}

(***************************************************************************)
(* extract_text_from_content, lines 33-50.                                 *)
(***************************************************************************)
ThinkingOpen == Lit(<<"[", "t", "h", "i", "n", "k", "i", "n", "g", ":", " ">>)
ThinkingClose == Lit(<<".", ".", ".", "]">>)

\* What one block appends to texts: a sequence of zero or one str.
BlockTexts(block, max_chars) ==
  IF IsStr(block) THEN << Slice(block.s, max_chars) >>
  ELSE IF IsDict(block) THEN
    IF Get(block, "type", JNull) = Atom("text")
      THEN << Slice(PyStr(Get(block, "text", JStr(<< >>))), max_chars) >>
    ELSE IF Get(block, "type", JNull) = Atom("thinking")
      THEN LET thinking == PyStr(Get(block, "thinking", JStr(<< >>)))
           IN  IF thinking # << >>
               THEN << Cat(Cat(ThinkingOpen, Slice(thinking, THINKING_PREVIEW_CAP)),
                           ThinkingClose) >>
               ELSE << >>
    ELSE << >>
  ELSE << >>

\* ' '.join(texts)
RECURSIVE JoinSpace(_)
JoinSpace(texts) ==
  IF texts = << >> THEN << >>
  ELSE IF Len(texts) = 1 THEN texts[1]
  ELSE Cat(Cat(texts[1], Rep(" ", 1)), JoinSpace(Tail(texts)))

RECURSIVE CollectTexts(_, _)
CollectTexts(blocks, max_chars) ==
  IF blocks = << >> THEN << >>
  ELSE BlockTexts(blocks[1], max_chars) \o CollectTexts(Tail(blocks), max_chars)

extract_text_from_content(content, max_chars) ==
  IF IsStr(content) THEN Slice(content.s, max_chars)
  ELSE IF IsList(content) THEN JoinSpace(CollectTexts(content.l, max_chars))
  ELSE << >>

(***************************************************************************)
(* extract_tool_calls, lines 53-88.  A tool_info dict is a function from   *)
(* its keys: name is the JSON value of the block's name, every other key   *)
(* a str.  The input of a tool_use block is a dict or absent in the        *)
(* modelled inputs.                                                        *)
(***************************************************************************)
InpStr(inp, k) == Get(inp, k, JStr(<< >>))

ToolInfo(block) ==
  LET name == Get(block, "name", Atom("unknown"))
      inp == Get(block, "input", EmptyDict)
      base == [k \in {"name"} |-> name]
  IN  IF name \in {Atom("Read"), Atom("Glob"), Atom("Grep")} THEN
        base @@ ("target" :> Slice(PyStr(Get(inp, "file_path",
                                    Get(inp, "pattern", InpStr(inp, "path")))),
                                   MAX_TOOL_RESULT_CHARS))
      ELSE IF name \in {Atom("Edit"), Atom("Write")} THEN
        base @@ ("target" :> Slice(PyStr(InpStr(inp, "file_path")), MAX_TOOL_RESULT_CHARS))
      ELSE IF name = Atom("Bash") THEN
        base @@ ("command" :> Slice(PyStr(InpStr(inp, "command")), MAX_TOOL_RESULT_CHARS))
      ELSE IF name = Atom("WebSearch") THEN
        base @@ ("query" :> Slice(PyStr(InpStr(inp, "query")), MAX_TOOL_RESULT_CHARS))
      ELSE IF name = Atom("WebFetch") THEN
        base @@ ("url" :> Slice(PyStr(InpStr(inp, "url")), MAX_TOOL_RESULT_CHARS))
      ELSE IF name = Atom("Task") THEN
        base @@ ("description" :> Slice(PyStr(InpStr(inp, "description")),
                                        TASK_DESCRIPTION_CAP))
             @@ ("subagent_type" :> PyStr(InpStr(inp, "subagent_type")))
      ELSE IF name \in {Atom("TaskCreate"), Atom("TaskUpdate")} THEN
        base @@ ("subject" :> Slice(PyStr(Get(inp, "subject", InpStr(inp, "status"))),
                                    TASK_SUBJECT_CAP))
      ELSE base

RECURSIVE ToolCallsOf(_)
ToolCallsOf(blocks) ==
  IF blocks = << >> THEN << >>
  ELSE (IF IsDict(blocks[1]) /\ Get(blocks[1], "type", JNull) = Atom("tool_use")
        THEN << ToolInfo(blocks[1]) >> ELSE << >>)
       \o ToolCallsOf(Tail(blocks))

extract_tool_calls(content) ==
  IF ~IsList(content) THEN << >> ELSE ToolCallsOf(content.l)

(***************************************************************************)
(* process_session, lines 91-222.  A log is the sequence of the file's     *)
(* lines: [k |-> "blank"] (empty after strip), [k |-> "bad"] (json.loads   *)
(* raises JSONDecodeError) or [k |-> "json", v |-> value].  A path is      *)
(* [project |-> directory name, stem |-> file name without ".jsonl"].      *)
(***************************************************************************)
BlankLine == [k |-> "blank"]
BadLine == [k |-> "bad"]
JsonLine(v) == [k |-> "json", v |-> v]

\* The locals of process_session after lines 96-108.
InitLocals ==
  [timestamps |-> << >>, user_messages |-> << >>, assistant_texts |-> << >>,
   tool_usage |-> << >>, tool_details |-> << >>, files_touched |-> {},
   models_used |-> {}, total_input_tokens |-> 0, total_output_tokens |-> 0,
   has_summary |-> FALSE, git_branch |-> JNull,
   lines_processed |-> 0, lines_skipped |-> 0]

\* counter[name] += 1 on a Counter kept as the sequence of its items in
\* insertion order.
CounterInc(counter, name) ==
  IF \E i \in 1..Len(counter) : counter[i][1] = name
  THEN LET i == CHOOSE i \in 1..Len(counter) : counter[i][1] = name
       IN  [counter EXCEPT ![i] = <<name, @[2] + 1>>]
  ELSE Append(counter, <<name, 1>>)

\* Mutant: the usage count is taken inside the cap on tool_details.
AddToolCountCapped(st, tool) ==
  LET target == IF "target" \in DOMAIN tool THEN tool["target"] ELSE << >>
  IN  [st EXCEPT
         !.tool_usage = IF Len(st.tool_details) < MAX_TOOL_DETAILS
                        THEN CounterInc(@, tool["name"]) ELSE @,
         !.files_touched = IF target # << >> /\ Contains(target, "/")
                           THEN @ \cup {target} ELSE @,
         !.tool_details = IF Len(@) < MAX_TOOL_DETAILS THEN Append(@, tool) ELSE @]

\* Mutant: a full tool_details drops its oldest entry to take the new one.
AddToolKeepLast(st, tool) ==
  LET target == IF "target" \in DOMAIN tool THEN tool["target"] ELSE << >>
  IN  [st EXCEPT
         !.tool_usage = CounterInc(@, tool["name"]),
         !.files_touched = IF target # << >> /\ Contains(target, "/")
                           THEN @ \cup {target} ELSE @,
         !.tool_details = IF Len(@) < MAX_TOOL_DETAILS THEN Append(@, tool)
                          ELSE Append(Tail(@), tool)]

\* Lines 161-167 for one tool of an assistant record.
AddTool(st, tool) ==
  LET target == IF "target" \in DOMAIN tool THEN tool["target"] ELSE << >>
  IN  [st EXCEPT
         !.tool_usage = CounterInc(@, tool["name"]),
         !.files_touched = IF target # << >> /\ Contains(target, "/")
                           THEN @ \cup {target} ELSE @,
         !.tool_details = IF Len(@) < MAX_TOOL_DETAILS THEN Append(@, tool) ELSE @]

RECURSIVE AddTools(_, _)
AddTools(st, tools) ==
  IF tools = << >> THEN st
  ELSE LET next == AddTool(st, tools[1]) IN Then(next, AddTools(next, Tail(tools)))

ContextSummaryOpen ==
  Lit(<<"[", "C", "O", "N", "T", "E", "X", "T", " ",
        "S", "U", "M", "M", "A", "R", "Y", ":", " ">>)
ContextSummaryClose == Lit(<<"]">>)

\* Mutant: the flag is set only by a summary record that carries a text.
OnSummaryWithText(st, obj) ==
  LET summary_text == Get(obj, "summary", JStr(<< >>))
  IN  IF Truthy(summary_text)
      THEN [st EXCEPT
              !.has_summary = TRUE,
              !.assistant_texts =
                 Append(@, Cat(Cat(ContextSummaryOpen,
                                   Slice(PyStr(summary_text), SUMMARY_TEXT_CAP)),
                               ContextSummaryClose))]
      ELSE st

\* Lines 130-136.
OnSummary(st, obj) ==
  LET summary_text == Get(obj, "summary", JStr(<< >>))
  IN  [st EXCEPT
         !.has_summary = TRUE,
         !.assistant_texts =
            IF Truthy(summary_text)
            THEN Append(@, Cat(Cat(ContextSummaryOpen,
                                   Slice(PyStr(summary_text), SUMMARY_TEXT_CAP)),
                               ContextSummaryClose))
            ELSE @]

\* Lines 138-142.
OnUser(st, obj) ==
  LET content == Get(Get(obj, "message", EmptyDict), "content", JStr(<< >>))
      text == extract_text_from_content(content, MAX_TEXT_PER_MESSAGE)
  IN  [st EXCEPT !.user_messages = IF Strip(text) # << >> THEN Append(@, text) ELSE @]

\* Lines 144-167.
OnAssistant(st, obj) ==
  LET msg == Get(obj, "message", EmptyDict)
      content == Get(msg, "content", JList(<< >>))
      model == Get(msg, "model", JStr(<< >>))
      usage == Get(msg, "usage", EmptyDict)
      text == extract_text_from_content(content, MAX_TEXT_PER_MESSAGE)
      st1 == [st EXCEPT
                !.models_used = IF Truthy(model) THEN @ \cup {model} ELSE @,
                !.total_input_tokens = @ + Get(usage, "input_tokens", JNum(0)).n,
                !.total_output_tokens = @ + Get(usage, "output_tokens", JNum(0)).n,
                !.assistant_texts = IF Strip(text) # << >> THEN Append(@, text) ELSE @]
  IN  AddTools(st1, extract_tool_calls(content))

\* Lines 121-167 for a parsed record that is a dict.
OnRecord(st, obj) ==
  LET msg_type == Get(obj, "type", JNull)
      timestamp == Get(obj, "timestamp", JNull)
      st1 == [st EXCEPT
                !.lines_processed = @ + 1,
                !.timestamps = IF Truthy(timestamp) THEN Append(@, timestamp) ELSE @,
                !.git_branch = IF ~Truthy(@) /\ Truthy(Get(obj, "gitBranch", JNull))
                               THEN obj.o["gitBranch"] ELSE @]
  IN  IF msg_type = Atom("summary") THEN OnSummary(st1, obj)
      ELSE IF msg_type = Atom("user") THEN OnUser(st1, obj)
      ELSE IF msg_type = Atom("assistant") THEN OnAssistant(st1, obj)
      ELSE st1

\* obj.get on a parsed value that is not a dict raises AttributeError
\* (line 122), which process_session does not catch.
LineRaises(line) == line.k = "json" /\ ~IsDict(line.v)

\* Mutant: the blank-line test of lines 113-114 is missing, so that an empty
\* line reaches json.loads and is counted as skipped.
ProcessLineNoBlankTest(st, line) ==
  IF line.k \in {"blank", "bad"} THEN [st EXCEPT !.lines_skipped = @ + 1]
  ELSE OnRecord(st, line.v)

\* One iteration of the loop of lines 111-167, for a line that does not raise.
ProcessLine(st, line) ==
  IF line.k = "blank" THEN st
  ELSE IF line.k = "bad" THEN [st EXCEPT !.lines_skipped = @ + 1]
  ELSE OnRecord(st, line.v)

\* Mutant: exchange_count is incremented only when an assistant turn is paired.
RECURSIVE FlowLoopCountPairs(_, _, _, _, _, _)
FlowLoopCountPairs(user_messages, assistant_texts, user_idx, asst_idx, exchange_count, flow) ==
  IF user_idx < Len(user_messages) /\ exchange_count < MAX_CONVERSATION_EXCHANGES
  THEN LET f1 == Append(flow, [role |-> "user", text |-> user_messages[user_idx + 1]])
           has_asst == asst_idx < Len(assistant_texts)
           f2 == IF has_asst
                 THEN Append(f1, [role |-> "assistant",
                                  text |-> assistant_texts[asst_idx + 1]])
                 ELSE f1
       IN  Then(f2, FlowLoopCountPairs(user_messages, assistant_texts, user_idx + 1,
                                       IF has_asst THEN asst_idx + 1 ELSE asst_idx,
                                       IF has_asst THEN exchange_count + 1
                                       ELSE exchange_count, f2))
  ELSE flow

\* Lines 169-189.
RECURSIVE FlowLoop(_, _, _, _, _, _)
FlowLoop(user_messages, assistant_texts, user_idx, asst_idx, exchange_count, flow) ==
  IF user_idx < Len(user_messages) /\ exchange_count < MAX_CONVERSATION_EXCHANGES
  THEN LET f1 == Append(flow, [role |-> "user", text |-> user_messages[user_idx + 1]])
           has_asst == asst_idx < Len(assistant_texts)
           f2 == IF has_asst
                 THEN Append(f1, [role |-> "assistant",
                                  text |-> assistant_texts[asst_idx + 1]])
                 ELSE f1
       IN  Then(f2, FlowLoop(user_messages, assistant_texts, user_idx + 1,
                             IF has_asst THEN asst_idx + 1 ELSE asst_idx,
                             exchange_count + 1, f2))
  ELSE flow

\* Mutant: the loop also stops when the assistant texts are exhausted.
BuildFlowPairsOnly(user_messages, assistant_texts) ==
  FlowLoop(Take(user_messages, Len(assistant_texts)), assistant_texts, 0, 0, 0, << >>)

BuildFlow(user_messages, assistant_texts) ==
  FlowLoop(user_messages, assistant_texts, 0, 0, 0, << >>)

\* Mutant: the timestamp of the first stamped record.
FirstStr(seq) == seq[1]

\* min(timestamps), max(timestamps), for str timestamps
MinStr(seq) ==
  seq[CHOOSE i \in 1..Len(seq) :
        \A j \in 1..Len(seq) : ~StrLess(seq[j].s, seq[i].s) /\ (seq[j] = seq[i] => i <= j)]
MaxStr(seq) ==
  seq[CHOOSE i \in 1..Len(seq) :
        \A j \in 1..Len(seq) : ~StrLess(seq[i].s, seq[j].s) /\ (seq[j] = seq[i] => i <= j)]

\* Counter.most_common(): the items by decreasing count, equal counts in
\* insertion order (a stable sort).
RECURSIVE MostCommon(_)
MostCommon(counter) ==
  IF counter = << >> THEN << >>
  ELSE LET i == CHOOSE i \in 1..Len(counter) :
                  \A j \in 1..Len(counter) :
                     /\ counter[j][2] <= counter[i][2]
                     /\ (counter[j][2] = counter[i][2] => i <= j)
       IN  << counter[i] >>
             \o MostCommon(SubSeq(counter, 1, i - 1) \o SubSeq(counter, i + 1, Len(counter)))

\* sorted(models_used)
SortedModels(S) ==
  LET strs == SortedStrs({m.s : m \in S}) IN [i \in 1..Len(strs) |-> JStr(strs[i])]

\* Lines 191-220; subagent_count is what lines 195-199 find on disk.
BuildSummary(path, st, subagent_count) ==
  [session_id |-> path.stem,
   project |-> path.project,
   start_time |-> IF st.timestamps # << >> THEN MinStr(st.timestamps) ELSE JNull,
   end_time |-> IF st.timestamps # << >> THEN MaxStr(st.timestamps) ELSE JNull,
   git_branch |-> st.git_branch,
   models_used |-> SortedModels(st.models_used),
   stats |-> [user_messages |-> Len(st.user_messages),
              assistant_responses |-> Len(st.assistant_texts),
              total_input_tokens |-> st.total_input_tokens,
              total_output_tokens |-> st.total_output_tokens,
              subagent_count |-> subagent_count,
              had_context_compression |-> st.has_summary],
   tool_usage |-> MostCommon(st.tool_usage),
   tool_details |-> st.tool_details,
   files_touched |-> Take(SortedStrs(st.files_touched), MAX_FILES_TOUCHED),
   conversation_flow |-> BuildFlow(st.user_messages, st.assistant_texts)]

\* The loop of lines 110-167 over a whole file.
RECURSIVE ScanLines(_, _)
ScanLines(st, lines) ==
  IF lines = << >> THEN st
  ELSE LET next == ProcessLine(st, lines[1]) IN Then(next, ScanLines(next, Tail(lines)))

SessionRaises(lines) == \E i \in 1..Len(lines) : LineRaises(lines[i])

\* process_session(jsonl_path) on a readable file none of whose lines
\* raises: the pair (summary, lines_skipped) of line 222.
process_session(path, lines, subagent_count) ==
  LET st == ScanLines(InitLocals, lines)
  IN  <<BuildSummary(path, st, subagent_count), st.lines_skipped>>

(***************************************************************************)
(* The session logs checked.  A log is generated line by line from a       *)
(* shape [pre, cyc]: the templates of its first lines, then a cycle of     *)
(* templates repeated until the file ends; the file may end after any      *)
(* line.  The text of a generated message depends on its line number, so   *)
(* that distinct lines carry distinct texts.                               *)
(***************************************************************************)
MaxLines == 84        \* lines read from one log
MaxShort == 3         \* lines of a log whose every line is chosen freely
MaxBlocks == 2        \* blocks in a content list of a text log
MaxPerRecord == 3     \* tool_use blocks in one assistant record of a tool log

Tpl(kind) == [kind |-> kind]

Record(type, fields) == JsonLine(JDict(("type" :> Atom(type)) @@ fields))
Message(content) == "message" :> JDict("content" :> content)

\* The tool names the code knows, one it does not, and a block without name.
ToolNames ==
  <<"Read", "Bash", "Edit", "Other", "Glob", "Task", "Write", "WebSearch", "Grep",
    "TaskCreate", "NoName", "WebFetch", "TaskUpdate">>

\* The k-th path: "/" b^(k%4) a^(k/4+1), or a pattern without separator.
Path(k) ==
  IF k % 9 = 0 THEN Cat(Rep("a", (k \div 9) + 1), Rep(".", 1))
  ELSE Cat(Rep("/", 1), Cat(Rep("b", k % 4), Rep("a", (k \div 4) + 1)))
PathCount == 45

\* The j-th tool_use block of a tool log: names in the order of `names`,
\* paths in a scattered order that repeats after PathCount blocks.
ToolBlock(names, j) ==
  LET name == names[((j - 1) % Len(names)) + 1]
      p == JStr(Path((j * 7) % PathCount))
      inp == CASE name \in {"Read", "Edit", "Write"} -> "file_path" :> p
               [] name = "Glob" -> "pattern" :> p
               [] name = "Grep" -> ("path" :> p)
               [] name = "Bash" -> "command" :> p
               [] name = "WebSearch" -> "query" :> p
               [] name = "WebFetch" -> "url" :> p
               [] name = "Task" -> ("description" :> p) @@ ("subagent_type" :> JStr(Rep("a", 1)))
               [] name = "TaskCreate" -> "subject" :> p
               [] name = "TaskUpdate" -> "status" :> p
               [] OTHER -> "file_path" :> p
  IN  JDict(("type" :> Atom("tool_use")) @@ ("input" :> JDict(inp))
            @@ (IF name = "NoName" THEN <<>> ELSE "name" :> Atom(name)))

\* The line a template yields at line number i.
Line(tpl, i) ==
  CASE tpl.kind = "user" -> Record("user", Message(JStr(Rep("a", i))))
    [] tpl.kind = "assistant" -> Record("assistant", Message(JStr(Rep("b", i))))
    [] tpl.kind = "summary" -> Record("summary", "summary" :> JStr(Rep("z", i)))
    [] tpl.kind = "wsuser" -> Record("user", Message(JStr(Rep(" ", i))))
    [] tpl.kind = "other" ->
         Record("system", ("timestamp" :> JStr(Rep("1", i))) @@ ("gitBranch" :> JStr(Rep("b", 1))))
    [] tpl.kind = "bad" -> BadLine
    [] tpl.kind = "blank" -> BlankLine
    [] tpl.kind = "nondict" -> JsonLine(JNum(i))
    [] tpl.kind = "content" -> Record(tpl.type, Message(tpl.content))
    [] tpl.kind = "line" -> tpl.line
    [] tpl.kind = "tools" ->
         Record("assistant",
                Message(JList([q \in 1..tpl.per |->
                                 ToolBlock(tpl.names, (i - 1) * tpl.per + q)])))

HasLine(shape, i) == i <= Len(shape.pre) \/ shape.cyc # << >>
LineAt(shape, i) ==
  IF i <= Len(shape.pre) THEN Line(shape.pre[i], i)
  ELSE Line(shape.cyc[((i - Len(shape.pre) - 1) % Len(shape.cyc)) + 1], i)

SeqsUpTo(S, n) == UNION {[1..m -> S] : m \in 0..n}

\* Short logs: every sequence of up to MaxShort lines of these kinds.
LineKinds == {"user", "assistant", "summary", "wsuser", "other", "bad", "blank", "nondict"}
ShortShapes ==
  {[pre |-> pre, cyc |-> << >>] : pre \in SeqsUpTo({Tpl(k) : k \in LineKinds}, MaxShort)}

\* Long logs: a prefix, then a cycle of lines repeated up to MaxLines.
Tpls(kinds) == [i \in 1..Len(kinds) |-> Tpl(kinds[i])]
LongPrefixes ==
  {<< >>, <<"assistant">>, <<"summary", "blank">>, <<"user", "user", "user", "user", "user">>}
Cycles ==
  {<<"user">>, <<"assistant">>, <<"user", "assistant">>, <<"assistant", "user">>,
   <<"user", "assistant", "assistant">>, <<"user", "user", "assistant">>,
   <<"user", "bad", "assistant">>, <<"summary", "user", "other">>}
LongShapes ==
  {[pre |-> Tpls(pre), cyc |-> Tpls(cyc)] : pre \in LongPrefixes, cyc \in Cycles}

\* Text logs: one user message and one assistant message or compression
\* summary, with a content of every shape around the caps.
TextLens == {0, 1, MAX_TEXT_PER_MESSAGE, MAX_TEXT_PER_MESSAGE + 1}
ThinkingLens == {0, THINKING_PREVIEW_CAP, THINKING_PREVIEW_CAP + 1}
SummaryLens == {0, 1, SUMMARY_TEXT_CAP, SUMMARY_TEXT_CAP + 1}
Blocks ==
  {JStr(Rep("a", n)) : n \in TextLens}
    \cup {JDict(("type" :> Atom("text")) @@ ("text" :> JStr(Rep("b", n)))) : n \in TextLens}
    \cup {JDict(("type" :> Atom("thinking")) @@ ("thinking" :> JStr(Rep("z", n)))) :
            n \in ThinkingLens}
    \cup {JStr(Rep(" ", 1)), JDict("type" :> Atom("text")), JDict("type" :> Atom("image")),
          JDict(("type" :> Atom("tool_use")) @@ ("name" :> Atom("Bash")))}
Contents ==
  {JStr(Rep("a", n)) : n \in TextLens}
    \cup {JList(bs) : bs \in SeqsUpTo(Blocks, MaxBlocks)}
    \cup {JNull}
ContentTpl(type, content) == [kind |-> "content", type |-> type, content |-> content]
TextShapes ==
  {[pre |-> <<ContentTpl("user", c), ContentTpl("assistant", c)>>, cyc |-> << >>] :
     c \in Contents}
    \cup {[pre |-> <<Tpl("user"),
                     [kind |-> "line",
                      line |-> Record("summary", "summary" :> JStr(Rep("z", n)))]>>,
            cyc |-> << >>] : n \in SummaryLens}

\* Detail logs: one assistant record with one tool_use block, for every tool
\* name and every input key, with a value around the caps.
DetailLens ==
  {0, 1, TASK_DESCRIPTION_CAP, TASK_DESCRIPTION_CAP + 1,
   MAX_TOOL_RESULT_CHARS, MAX_TOOL_RESULT_CHARS + 1}
InputKeys ==
  {"file_path", "pattern", "path", "command", "query", "url", "description",
   "subagent_type", "subject", "status"}
DetailBlocks ==
  {JDict(("type" :> Atom("tool_use")) @@ ("name" :> Atom(ToolNames[i]))
         @@ ("input" :> JDict(k :> JStr(Cat(Rep("/", 1), Rep("a", n - 1)))))) :
     i \in 1..Len(ToolNames), k \in InputKeys, n \in DetailLens \ {0}}
    \cup {JDict(("type" :> Atom("tool_use")) @@ ("name" :> Atom(ToolNames[i]))) :
            i \in 1..Len(ToolNames)}
DetailShapes ==
  {[pre |-> <<ContentTpl("assistant", JList(<<b>>))>>, cyc |-> << >>] : b \in DetailBlocks}

\* Tool logs: assistant records of `per` tool_use blocks each, the names
\* taken in turn from one of these lists.
NameCycles == {ToolNames, <<"Read">>, <<"Edit", "Bash">>, <<"Other", "NoName", "Glob">>}
ToolShapes ==
  {[pre |-> << >>, cyc |-> <<[kind |-> "tools", per |-> per, names |-> names]>>] :
     per \in 1..MaxPerRecord, names \in NameCycles}

\* Stamped logs: records of every kind, known or not, with a timestamp that
\* is "0", "1", "10", empty or missing, in every order of two and in orders
\* of three with the earliest in the middle.  The summary records carry no
\* text.
StampValues ==
  {JStr(Rep("0", 1)), JStr(Rep("1", 1)), JStr(Cat(Rep("1", 1), Rep("0", 1))), JStr(<< >>)}
StampTypes == {"summary", "user", "assistant", "system"}
StampTpl(type, fields) == [kind |-> "line", line |-> Record(type, fields)]
StampTpls ==
  {StampTpl(type, "timestamp" :> ts) : type \in StampTypes, ts \in StampValues}
    \cup {StampTpl(type, [k \in {} |-> JNull]) : type \in StampTypes}
StampShapes ==
  {[pre |-> <<x, y>>, cyc |-> << >>] : x \in StampTpls, y \in StampTpls}
    \cup {[pre |-> <<StampTpl(x, "timestamp" :> JStr(Rep("1", 1))),
                     StampTpl(y, "timestamp" :> JStr(Rep("0", 1))),
                     StampTpl(z, "timestamp" :> JStr(Cat(Rep("1", 1), Rep("0", 1))))>>,
            cyc |-> << >>] : x \in StampTypes, y \in StampTypes, z \in {"user", "system"}}

Shapes ==
  ShortShapes \cup LongShapes \cup TextShapes \cup DetailShapes \cup ToolShapes
    \cup StampShapes
Paths == {[project |-> "projA", stem |-> "s1"]}
SubagentCounts == {2}

(***************************************************************************)
(* State.                                                                  *)
(***************************************************************************)
VARIABLES
  shape,           \* the generator of the log being read
  jsonl_path,      \* process_session's argument
  subagent_files,  \* the *.jsonl files in <session>/subagents on disk
  log,             \* the lines of the file read so far
  ps,              \* the locals of process_session (lines 96-108)
  pc,              \* "scan": in the loop of line 111; "done": returned;
                   \* "raised": left by an exception; "idle": not called
  ret,             \* the value returned: <<summary, lines_skipped>>
  ps_clean,        \* history: the locals of process_session run on the lines
                   \* read so far without the unparseable ones
  \* main (lines 235-385)
  args_force,          \* args.force
  parent_sessions,     \* discover_sessions(session_dir), sorted
  session_files,       \* the session logs on disk, by session id
  summary_files,       \* session_summaries/<id>.json on disk, by session id
  manifest_file,       \* session_manifest.json on disk
  idx,                 \* sessions the loop of line 297 has gone through
  all_summaries, new_count, skipped_count, error_count, total_lines_skipped,
  mpc,                 \* "loop": in the loop of line 297; "exit": main returned
                       \* or called sys.exit; "crashed": left by an uncaught
                       \* exception; "idle": not running
  run_no,              \* the number of the current run of main
  start_files,         \* history: summary_files when the current run began
  calls,               \* history: the sessions process_session was called on
                       \* in the current run
  failed,              \* history: the sessions whose processing raised inside
                       \* the try of lines 320-335 in the current run
  \* report.py
  facet_shape,            \* the generator of the facets being written
  all_facets_json,        \* <input-dir>/all_facets.json on disk
  session_manifest_json,  \* <input-dir>/session_manifest.json as load_manifest
                          \* reads it: None when the file is absent
  native_facets_dir,      \* the facets lines 545-552 load from NATIVE_FACETS_DIR:
                          \* none when the directory is missing or
                          \* --no-comparison is given
  main_facets,            \* the local `facets` of report.main, or the argument
                          \* of a direct call of build_report_data
  main_manifest,          \* the local `manifest`
  main_data,              \* the dataset build_report_data returned
  report_html,            \* the output file
  rpc,                    \* "idle": not started; "loaded": after line 667;
                          \* "built": after line 677; "written": main returned;
                          \* "exit": sys.exit(1) in main or load_facets;
                          \* "crashed": main left by an uncaught exception;
                          \* of a direct call of build_report_data:
                          \* "returned", "exit_build": sys.exit(1) at line
                          \* 395, "raised": left by an exception
  \* process_session run by concurrent workers
  wk,                     \* by worker: its session, its position in the file
                          \* and the locals, state and result of its call
  collected,              \* what the main thread made of the results
  overlap                 \* history: a worker has taken a step while another
                          \* was inside the loop of line 111

sessionVars == <<shape, jsonl_path, subagent_files, log, ps, pc, ret, ps_clean>>
mainVars ==
  <<args_force, parent_sessions, session_files, summary_files, manifest_file, idx,
    all_summaries, new_count, skipped_count, error_count, total_lines_skipped, mpc,
    run_no, start_files, calls, failed>>
reportVars ==
  <<facet_shape, all_facets_json, session_manifest_json, native_facets_dir, main_facets,
    main_manifest, main_data, report_html, rpc>>
workerVars == <<wk, collected, overlap>>
vars == <<sessionVars, mainVars, reportVars, workerVars>>

NoReturn == << >>
Absent == [k |-> "absent"]

\* main is not running.
MainIdle ==
  /\ args_force = FALSE
  /\ parent_sessions = << >>
  /\ session_files = << >>
  /\ summary_files = << >>
  /\ manifest_file = Absent
  /\ idx = 0
  /\ all_summaries = << >>
  /\ new_count = 0
  /\ skipped_count = 0
  /\ error_count = 0
  /\ total_lines_skipped = 0
  /\ mpc = "idle"
  /\ run_no = 0
  /\ start_files = << >>
  /\ calls = {}
  /\ failed = {}

\* report.py is not running and has no input.
ReportIdle ==
  /\ facet_shape = [pre |-> << >>, cyc |-> << >>]
  /\ all_facets_json = Absent
  /\ session_manifest_json = JNull
  /\ native_facets_dir = << >>
  /\ main_facets = << >>
  /\ main_manifest = JNull
  /\ main_data = JNull
  /\ report_html = Absent
  /\ rpc = "idle"

\* No worker has been started.
NotCollected == [k |-> "none"]
WorkersIdle ==
  /\ wk = << >>
  /\ collected = NotCollected
  /\ overlap = FALSE

Init ==
  /\ WorkersIdle
  /\ shape \in Shapes
  /\ jsonl_path \in Paths
  /\ subagent_files \in SubagentCounts
  /\ log = << >>
  /\ ps = InitLocals
  /\ pc = "scan"
  /\ ret = NoReturn
  /\ ps_clean = InitLocals
  /\ MainIdle
  /\ ReportIdle

\* One iteration of the loop of lines 111-167.
ReadLine ==
  /\ pc = "scan"
  /\ Len(log) < MaxLines
  /\ HasLine(shape, Len(log) + 1)
  /\ LET line == LineAt(shape, Len(log) + 1)
     IN  /\ log' = Append(log, line)
         /\ \/ /\ ~LineRaises(line)
               /\ ps' = ProcessLine(ps, line)
               /\ ps_clean' = IF line.k = "bad" THEN ps_clean ELSE ProcessLine(ps_clean, line)
               /\ pc' = pc
            \/ /\ LineRaises(line)
               /\ ps' = ps
               /\ ps_clean' = ps_clean
               /\ pc' = "raised"
  /\ UNCHANGED <<shape, jsonl_path, subagent_files, ret>>
  /\ UNCHANGED mainVars
  /\ UNCHANGED <<reportVars, workerVars>>

\* The file ends: lines 169-222.
EndOfFile ==
  /\ pc = "scan"
  /\ pc' = "done"
  /\ ret' = <<BuildSummary(jsonl_path, ps, subagent_files), ps.lines_skipped>>
  /\ UNCHANGED <<shape, jsonl_path, subagent_files, log, ps, ps_clean>>
  /\ UNCHANGED mainVars
  /\ UNCHANGED <<reportVars, workerVars>>

Next == ReadLine \/ EndOfFile

Spec == Init /\ [][Next]_vars

(***************************************************************************)
(* Claims about process_session.                                           *)
(***************************************************************************)
Returned == pc = "done"
Summary == ret[1]
Flow == Summary.conversation_flow
Roles(f) == [i \in 1..Len(f) |-> f[i].role]
AssistantTurnsUpTo(f, i) == Cardinality({j \in 1..i : f[j].role = "assistant"})

\* C1 as stated: the flow has at most 80 entries, entry 0 is a user entry and
\* no two adjacent entries have the same role.
C1_StrictAlternation ==
  Returned =>
    /\ Len(Flow) <= 80
    /\ (Flow # << >> => Flow[1].role = "user")
    /\ \A i \in 1..(Len(Flow) - 1) : Flow[i].role # Flow[i + 1].role

\* C1 amended: the flow has at most 80 entries, a non-empty flow starts with
\* a user entry, every assistant entry directly follows a user entry, and two
\* user entries are adjacent only once every assistant text of the log has
\* been emitted before them.
C1_UserLedPairs ==
  Returned =>
    /\ Len(Flow) <= 80
    /\ (Flow # << >> => Flow[1].role = "user")
    /\ \A i \in 1..Len(Flow) :
         Flow[i].role = "assistant" => i > 1 /\ Flow[i - 1].role = "user"
    /\ \A i \in 1..(Len(Flow) - 1) :
         Flow[i].role = "user" /\ Flow[i + 1].role = "user"
           => AssistantTurnsUpTo(Flow, i) = Len(ps.assistant_texts)

\* C1 witness: a log with more than 40 user texts, its flow cut at 80
\* entries.
C1_Witness ==
  /\ Returned
  /\ Len(ps.user_messages) > MAX_CONVERSATION_EXCHANGES
  /\ Len(Flow) = 80

\* The text a line adds to one of the two streams, as a sequence of zero or
\* one str.
Produced(line) ==
  IF LineRaises(line) THEN << >>
  ELSE LET st == ProcessLine(InitLocals, line) IN st.user_messages \o st.assistant_texts
\* The number of the line that produced a flow entry.
Origin(entry) == CHOOSE k \in 1..Len(log) : Produced(log[k]) = <<entry.text>>

\* C2 as stated: the flow preserves the order of the log, an entry that
\* precedes another comes from an earlier record.
C2_ChronologicalOrder ==
  Returned =>
    \A i \in 1..Len(Flow) : \A j \in (i + 1)..Len(Flow) :
       Origin(Flow[i]) < Origin(Flow[j])

IsSummaryText(text) == Slice(text, StrLen(ContextSummaryOpen)) = ContextSummaryOpen

\* C3 as stated: every text of the flow has at most 500 characters, at most
\* 1000 for a compression-summary pseudo-message.
C3_FlowTextCapped ==
  Returned =>
    \A i \in 1..Len(Flow) :
       StrLen(Flow[i].text) <= (IF IsSummaryText(Flow[i].text) THEN 1000 ELSE 500)

\* C4 as stated: no detail string of a tool invocation record exceeds 200
\* characters, and a Task description never exceeds 100.
C4_DetailCapped ==
  \A i \in 1..Len(ps.tool_details) :
     \A k \in DOMAIN ps.tool_details[i] \ {"name"} :
        /\ StrLen(ps.tool_details[i][k]) <= 200
        /\ (k = "description" => StrLen(ps.tool_details[i][k]) <= 100)

\* The tool_use blocks of the assistant records of a log, in log order, read
\* off the raw lines.
IsAssistantLine(line) ==
  line.k = "json" /\ IsDict(line.v) /\ Get(line.v, "type", JNull) = Atom("assistant")
ContentBlocks(line) ==
  LET content == Get(Get(line.v, "message", EmptyDict), "content", JList(<< >>))
  IN  IF IsList(content) THEN content.l ELSE << >>
IsToolUse(block) == IsDict(block) /\ Get(block, "type", JNull) = Atom("tool_use")
RECURSIVE ToolUseBlocks(_)
ToolUseBlocks(lines) ==
  IF lines = << >> THEN << >>
  ELSE (IF IsAssistantLine(lines[1])
        THEN SelectSeq(ContentBlocks(lines[1]), IsToolUse) ELSE << >>)
       \o ToolUseBlocks(Tail(lines))
BlockName(block) == Get(block, "name", Atom("unknown"))
CountNamed(blocks, name) == Cardinality({i \in 1..Len(blocks) : BlockName(blocks[i]) = name})
UsageOf(usage, name) ==
  IF \E i \in 1..Len(usage) : usage[i][1] = name
  THEN usage[CHOOSE i \in 1..Len(usage) : usage[i][1] = name][2] ELSE 0
RECURSIVE UsageTotal(_)
UsageTotal(usage) == IF usage = << >> THEN 0 ELSE usage[1][2] + UsageTotal(Tail(usage))
AllNames == {Atom(ToolNames[i]) : i \in 1..Len(ToolNames)} \cup {Atom("unknown")}

\* C5: tool_usage[name] is the exact number of tool_use blocks of that name
\* in the assistant records of the log, every name of the table occurring
\* once, whatever the length of tool_details.
C5_UsageExact ==
  Returned =>
    LET blocks == ToolUseBlocks(log) IN
      /\ \A name \in AllNames : UsageOf(Summary.tool_usage, name) = CountNamed(blocks, name)
      /\ \A i, j \in 1..Len(Summary.tool_usage) :
            Summary.tool_usage[i][1] = Summary.tool_usage[j][1] => i = j
      /\ UsageTotal(Summary.tool_usage) = Len(blocks)

\* C5 witness: more invocations counted than tool_details holds, one of
\* them of a name the code does not know.
C5_Witness ==
  /\ Returned
  /\ UsageTotal(Summary.tool_usage) > Len(Summary.tool_details)
  /\ Len(Summary.tool_details) = MAX_TOOL_DETAILS
  /\ UsageOf(Summary.tool_usage, Atom("Other")) > 0
  /\ UsageOf(Summary.tool_usage, Atom("unknown")) > 0

\* The distinct targets with a separator among the tool invocations of a log.
QualifyingTargets(lines) ==
  LET blocks == ToolUseBlocks(lines)
      infos == {ToolInfo(blocks[i]) : i \in 1..Len(blocks)}
  IN  {t \in {info["target"] : info \in {x \in infos : "target" \in DOMAIN x}} :
         Contains(t, "/")}

\* C6: files_touched has no duplicates, is in ascending lexicographic order,
\* has at most 30 entries, holds only tool targets with a separator, and is
\* the 30 smallest (or all) of the distinct qualifying targets of the log.
C6_FilesTouched ==
  Returned =>
    LET files == Summary.files_touched
        held == {files[i] : i \in 1..Len(files)}
        all == QualifyingTargets(log)
    IN  /\ \A i \in 1..(Len(files) - 1) : StrLess(files[i], files[i + 1])
        /\ Len(files) <= 30
        /\ \A i \in 1..Len(files) : Contains(files[i], "/")
        /\ held \subseteq all
        /\ Len(files) = (IF Cardinality(all) < 30 THEN Cardinality(all) ELSE 30)
        /\ \A x \in all \ held : \A y \in held : StrLess(y, x)

\* C6 witness: more than 30 distinct qualifying targets, and targets without
\* separator, were seen.
C6_Witness ==
  /\ Returned
  /\ Cardinality(QualifyingTargets(log)) > MAX_FILES_TOUCHED
  /\ Len(Summary.files_touched) = MAX_FILES_TOUCHED
  /\ \E i \in 1..Len(ps.tool_details) :
        /\ "target" \in DOMAIN ps.tool_details[i]
        /\ ~Contains(ps.tool_details[i]["target"], "/")

IsBad(line) == line.k = "bad"
BadCount(lines) == Cardinality({i \in 1..Len(lines) : IsBad(lines[i])})
NotBad(line) == ~IsBad(line)
WithoutBad(lines) == SelectSeq(lines, NotBad)

\* C8: the summary of a log equals the summary of the log with its
\* unparseable lines removed (ps_clean holds the locals of that second run),
\* and lines_skipped is the number of unparseable lines.
C8_MalformedLinesSkipped ==
  Returned =>
    /\ Summary = BuildSummary(jsonl_path, ps_clean, subagent_files)
    /\ Len(log) <= MaxShort =>
         Summary = process_session(jsonl_path, WithoutBad(log), subagent_files)[1]
    /\ ret[2] = BadCount(log)

\* C8 witness: exactly one unparseable line, with blank lines or records
\* before it and messages after it that reach the flow.
C8_Witness ==
  /\ Returned
  /\ BadCount(log) = 1
  /\ ret[2] = 1
  /\ \E i \in 2..Len(log) : \E j \in (i + 1)..Len(log) :
        /\ IsBad(log[i])
        /\ Produced(log[j]) # << >>
        /\ \E n \in 1..Len(Flow) : <<Flow[n].text>> = Produced(log[j])

(***************************************************************************)
(* main, lines 235-385: the loop over the discovered sessions with the     *)
(* cache of summary files, and the manifest.  A file on disk is Absent,    *)
(* Garbage (json.load raises JSONDecodeError) or JsonFile(v), v the value  *)
(* json.load returns.  A summary is a record; a dict that lacks keys of a  *)
(* summary is a record without those fields.  The console output, the      *)
(* sizes and generated_at are left out.                                    *)
(***************************************************************************)
MaxRuns == 2          \* runs of main in a row

Garbage == [k |-> "garbage"]
JsonFile(v) == [k |-> "json", v |-> v]

\* json.dump(summary, f), line 327, and json.load(f), line 306
json_dump(summary) == JsonFile(summary)
JsonLoadRaises(file) == file.k = "garbage"
json_load(file) == file.v

\* Mutant: the cache is consulted whatever args.force says.
CacheConsultedAlways(force, file) == file # Absent

\* Line 303: not args.force and os.path.exists(summary_path)
CacheConsulted(force, file) == ~force /\ file # Absent

\* Lines 303-311: the iteration ends at the continue of line 309.
CacheHits(force, file) == CacheConsulted(force, file) /\ ~JsonLoadRaises(file)

\* process_session raises: open() fails on an unreadable file (line 110), or
\* a line raises (line 122).
ProcessSessionRaises(file) == ~file.readable \/ SessionRaises(file.lines)

\* The keys of a dict kept as the sequence of its items.
RECURSIVE Keys(_)
Keys(items) == IF items = << >> THEN << >> ELSE << items[1][1] >> \o Keys(Tail(items))

\* Lines 343-350 raise KeyError on a summary dict without these keys.
ManifestEntryRaises(s) ==
  \/ ~({"session_id", "project", "start_time", "end_time", "stats", "models_used",
         "tool_usage"} \subseteq DOMAIN s)
  \/ ~({"user_messages", "subagent_count"} \subseteq DOMAIN s.stats)

\* Lines 342-351.
ManifestEntry(s) ==
  [session_id |-> s.session_id,
   project |-> s.project,
   start_time |-> s.start_time,
   end_time |-> s.end_time,
   user_messages |-> s.stats.user_messages,
   models |-> s.models_used,
   subagent_count |-> s.stats.subagent_count,
   top_tools |-> Take(Keys(s.tool_usage), TOP_TOOLS_CAP)]

RECURSIVE ManifestEntries(_)
ManifestEntries(summaries) ==
  IF summaries = << >> THEN << >>
  ELSE << ManifestEntry(summaries[1]) >> \o ManifestEntries(Tail(summaries))

\* Mutant: the entries are added to those of the manifest on disk.
BuildManifestMerged(summaries) ==
  LET old == IF manifest_file = Absent THEN << >> ELSE manifest_file.v.sessions
  IN  [total_sessions |-> Len(old) + Len(summaries),
       sessions |-> old \o ManifestEntries(summaries)]

\* Lines 338-354.
BuildManifest(summaries) ==
  [total_sessions |-> Len(summaries), sessions |-> ManifestEntries(summaries)]

\* The sessions and the files checked.
S1 == [project |-> "projA", stem |-> "s1"]
S2 == [project |-> "projB", stem |-> "s2"]
SessionLists == {<< >>, <<S1>>, <<S1, S2>>}
Ids(sessions) == {sessions[i].stem : i \in 1..Len(sessions)}

\* The tools of the normal log: 7 names, the most used ones invoked last.
NormalTools ==
  <<"Read", "Bash", "Edit", "Other", "Glob", "Task", "Task", "Write", "Write", "Write">>
NormalLog ==
  <<Line(Tpl("user"), 1),
    Line([kind |-> "tools", per |-> Len(NormalTools), names |-> NormalTools], 2),
    Line(Tpl("assistant"), 3)>>
BadLineLog == <<BadLine, Line(Tpl("user"), 2), Line(Tpl("summary"), 3)>>
RaisingLog == <<Line(Tpl("user"), 1), Line(Tpl("nondict"), 2)>>
SessionFiles ==
  {[readable |-> TRUE, lines |-> NormalLog, subagents |-> 2],
   [readable |-> TRUE, lines |-> BadLineLog, subagents |-> 0],
   [readable |-> TRUE, lines |-> RaisingLog, subagents |-> 0],
   [readable |-> FALSE, lines |-> << >>, subagents |-> 0]}

\* A summary file left by an earlier run: none, an unparseable one, a dict
\* that is no complete summary, or the summary of an older, empty log.
IncompleteSummary == [project |-> "projA"]
StaleSummary(path) == process_session(path, << >>, 0)[1]
OldFile(kind, path) ==
  CASE kind = "absent" -> Absent
    [] kind = "garbage" -> Garbage
    [] kind = "incomplete" -> JsonFile(IncompleteSummary)
    [] kind = "stale" -> JsonFile(StaleSummary(path))
OldFileKinds == {"absent", "garbage", "incomplete", "stale"}

SessionIdle ==
  /\ shape = [pre |-> << >>, cyc |-> << >>]
  /\ jsonl_path = S1
  /\ subagent_files = 0
  /\ log = << >>
  /\ ps = InitLocals
  /\ pc = "idle"
  /\ ret = NoReturn
  /\ ps_clean = InitLocals

\* Lines 291-295.
LoopLocalsReset ==
  /\ idx' = 0
  /\ all_summaries' = << >>
  /\ new_count' = 0
  /\ skipped_count' = 0
  /\ error_count' = 0
  /\ total_lines_skipped' = 0

InitMain ==
  /\ WorkersIdle
  /\ SessionIdle
  /\ ReportIdle
  /\ args_force \in BOOLEAN
  /\ parent_sessions \in SessionLists
  /\ session_files \in [Ids(parent_sessions) -> SessionFiles]
  /\ \E kinds \in [Ids(parent_sessions) -> OldFileKinds] :
        summary_files =
          [id \in Ids(parent_sessions) |->
             OldFile(kinds[id], CHOOSE p \in {S1, S2} : p.stem = id)]
  /\ manifest_file = Absent
  /\ idx = 0
  /\ all_summaries = << >>
  /\ new_count = 0
  /\ skipped_count = 0
  /\ error_count = 0
  /\ total_lines_skipped = 0
  /\ mpc = "loop"
  /\ run_no = 1
  /\ start_files = summary_files
  /\ calls = {}
  /\ failed = {}

Current == parent_sessions[idx + 1]
InLoop == mpc = "loop" /\ idx < Len(parent_sessions)
runConstants == <<args_force, parent_sessions, session_files, run_no, start_files>>

\* Lines 273-276: nothing discovered, sys.exit(0).
NoSessions ==
  /\ mpc = "loop"
  /\ parent_sessions = << >>
  /\ mpc' = "exit"
  /\ UNCHANGED <<runConstants, summary_files, manifest_file, idx, all_summaries, new_count,
                 skipped_count, error_count, total_lines_skipped, calls, failed>>
  /\ UNCHANGED sessionVars
  /\ UNCHANGED <<reportVars, workerVars>>

\* An iteration that ends at line 309: the summary on disk is reused.
CacheHit ==
  /\ InLoop
  /\ CacheHits(args_force, summary_files[Current.stem])
  /\ all_summaries' = Append(all_summaries, json_load(summary_files[Current.stem]))
  /\ skipped_count' = skipped_count + 1
  /\ idx' = idx + 1
  /\ UNCHANGED <<runConstants, summary_files, manifest_file, new_count, error_count,
                 total_lines_skipped, mpc, calls, failed>>
  /\ UNCHANGED sessionVars
  /\ UNCHANGED <<reportVars, workerVars>>

\* An iteration in which process_session raises: lines 321, 333-335.
ProcessRaises ==
  /\ InLoop
  /\ ~CacheHits(args_force, summary_files[Current.stem])
  /\ ProcessSessionRaises(session_files[Current.stem])
  /\ error_count' = error_count + 1
  /\ idx' = idx + 1
  /\ calls' = calls \cup {Current.stem}
  /\ failed' = failed \cup {Current.stem}
  /\ UNCHANGED <<runConstants, summary_files, manifest_file, all_summaries, new_count,
                 skipped_count, total_lines_skipped, mpc>>
  /\ UNCHANGED sessionVars
  /\ UNCHANGED <<reportVars, workerVars>>

\* An iteration that runs lines 321-331 to the end.
ProcessAndSave ==
  /\ InLoop
  /\ ~CacheHits(args_force, summary_files[Current.stem])
  /\ ~ProcessSessionRaises(session_files[Current.stem])
  /\ LET file == session_files[Current.stem]
         result == process_session(Current, file.lines, file.subagents)
     IN  /\ total_lines_skipped' = total_lines_skipped + result[2]
         /\ all_summaries' = Append(all_summaries, result[1])
         /\ new_count' = new_count + 1
         /\ summary_files' = [summary_files EXCEPT ![Current.stem] = json_dump(result[1])]
  /\ idx' = idx + 1
  /\ calls' = calls \cup {Current.stem}
  /\ UNCHANGED <<runConstants, manifest_file, skipped_count, error_count, mpc, failed>>
  /\ UNCHANGED sessionVars
  /\ UNCHANGED <<reportVars, workerVars>>

\* An iteration in which writing the summary raises (lines 326-327, then
\* 333-335): open() fails and leaves the file as it was, or json.dump fails
\* on the file open() has truncated.
SaveRaises ==
  /\ InLoop
  /\ ~CacheHits(args_force, summary_files[Current.stem])
  /\ ~ProcessSessionRaises(session_files[Current.stem])
  /\ LET file == session_files[Current.stem]
         result == process_session(Current, file.lines, file.subagents)
     IN  /\ total_lines_skipped' = total_lines_skipped + result[2]
         /\ all_summaries' = Append(all_summaries, result[1])
         /\ new_count' = new_count + 1
  /\ \/ summary_files' = summary_files
     \/ summary_files' = [summary_files EXCEPT ![Current.stem] = Garbage]
  /\ error_count' = error_count + 1
  /\ idx' = idx + 1
  /\ calls' = calls \cup {Current.stem}
  /\ failed' = failed \cup {Current.stem}
  /\ UNCHANGED <<runConstants, manifest_file, skipped_count, mpc>>
  /\ UNCHANGED sessionVars
  /\ UNCHANGED <<reportVars, workerVars>>

\* Lines 337-358 and the rest of main: the manifest is built and written,
\* or building it raises KeyError, which nothing catches.
WriteManifest ==
  /\ mpc = "loop"
  /\ parent_sessions # << >>
  /\ idx = Len(parent_sessions)
  /\ IF \E n \in 1..Len(all_summaries) : ManifestEntryRaises(all_summaries[n])
     THEN /\ mpc' = "crashed"
          /\ manifest_file' = manifest_file
     ELSE /\ mpc' = "exit"
          /\ manifest_file' = JsonFile(BuildManifest(all_summaries))
  /\ UNCHANGED <<runConstants, summary_files, idx, all_summaries, new_count, skipped_count,
                 error_count, total_lines_skipped, calls, failed>>
  /\ UNCHANGED sessionVars
  /\ UNCHANGED <<reportVars, workerVars>>

\* main is run again on the same logs, with or without --force.
StartRun ==
  /\ mpc \in {"exit", "crashed"}
  /\ run_no < MaxRuns
  /\ run_no' = run_no + 1
  /\ args_force' \in BOOLEAN
  /\ mpc' = "loop"
  /\ LoopLocalsReset
  /\ start_files' = summary_files
  /\ calls' = {}
  /\ failed' = {}
  /\ UNCHANGED <<parent_sessions, session_files, summary_files, manifest_file>>
  /\ UNCHANGED sessionVars
  /\ UNCHANGED <<reportVars, workerVars>>

NextMain ==
  \/ NoSessions
  \/ CacheHit
  \/ ProcessRaises
  \/ ProcessAndSave
  \/ SaveRaises
  \/ WriteManifest
  \/ StartRun

SpecMain == InitMain /\ [][NextMain]_vars

(***************************************************************************)
(* Claims about main.                                                      *)
(***************************************************************************)
RunEnded == mpc = "exit" /\ parent_sessions # << >>
IdOf(n) == parent_sessions[n].stem
\* The sessions among the first n that left no entry in all_summaries.
NoEntry(n) ==
  {k \in 1..n : IdOf(k) \in calls /\ ProcessSessionRaises(session_files[IdOf(k)])}
\* The entry of all_summaries that the n-th session appended.
EntryOf(n) == all_summaries[n - Cardinality(NoEntry(n))]
ComputedSummary(path) ==
  process_session(path, session_files[path.stem].lines, session_files[path.stem].subagents)[1]

\* C7: in a run without --force, a session whose summary file exists and
\* parses is not passed to process_session, its file is left as it was and
\* the summary collected is the content of the file; in a run with --force
\* process_session is called for every session the loop has gone through.
C7_CacheReuse ==
  \A n \in 1..idx :
     /\ args_force => IdOf(n) \in calls
     /\ ~args_force /\ start_files[IdOf(n)].k = "json" =>
          /\ IdOf(n) \notin calls
          /\ summary_files[IdOf(n)] = start_files[IdOf(n)]
          /\ EntryOf(n) = start_files[IdOf(n)].v

\* C7 witness: a second run, without --force, that ended after reusing the
\* summary an earlier run computed and saved.
C7_Witness ==
  /\ RunEnded
  /\ run_no = 2
  /\ ~args_force
  /\ skipped_count = Len(parent_sessions)
  /\ \E n \in 1..Len(parent_sessions) :
        /\ ~ProcessSessionRaises(session_files[IdOf(n)])
        /\ summary_files[IdOf(n)] = json_dump(ComputedSummary(parent_sessions[n]))
        /\ IdOf(n) \notin calls

ManifestIds ==
  {manifest_file.v.sessions[m].session_id : m \in 1..Len(manifest_file.v.sessions)}

\* C9 as stated: when the run ends, every session whose processing failed
\* (process_session or the write of its summary raised) was counted once in
\* error_count and has no entry in the manifest, the loop went through every
\* session, and the manifest was written.
C9_FailedSessionExcluded ==
  RunEnded =>
    /\ idx = Len(parent_sessions)
    /\ error_count = Cardinality(failed)
    /\ manifest_file.k = "json"
    /\ \A id \in failed : id \notin ManifestIds

IsCompleteSummary(v) == DOMAIN v = DOMAIN StaleSummary(S1)
IsCorrupt(file) == file.k = "garbage" \/ (file.k = "json" /\ ~IsCompleteSummary(file.v))

\* C10 as stated: a corrupt summary file (unparseable, or no complete
\* summary) is treated as absent, its session is recompacted in that run, and
\* no run is aborted by it.
C10_CorruptCacheRecomputed ==
  /\ mpc # "crashed"
  /\ \A n \in 1..idx : IsCorrupt(start_files[IdOf(n)]) => IdOf(n) \in calls

(***************************************************************************)
(* report.py: the aggregation engine.  A facet is a function from its      *)
(* field names to JSON values; a dict whose iteration order the code       *)
(* depends on (a mapping-valued field, a Counter) is kept as the sequence  *)
(* of its items <<key, value>> in insertion order.  Counts are ints.       *)
(***************************************************************************)
TOP_FRICTION_SESSIONS_CAP == 10
BEST_SESSIONS_CAP == 10
RECOMMENDATIONS_CAP == 5
CONCENTRATION_TOP == 5
SUBAGENT_EXPLOSION_MIN == 10

OUTCOME_LABELS ==
  [fully_achieved |-> "Fully Achieved", mostly_achieved |-> "Mostly Achieved",
   partially_achieved |-> "Partially Achieved", not_achieved |-> "Not Achieved",
   abandoned |-> "Abandoned", unclear |-> "Unclear"]
HELPFULNESS_LABELS ==
  [essential |-> "Essential", very_helpful |-> "Very Helpful",
   moderately_helpful |-> "Moderately Helpful", slightly_helpful |-> "Slightly Helpful",
   unhelpful |-> "Unhelpful"]
SATISFACTION_LABELS ==
  [satisfied |-> "Satisfied", neutral |-> "Neutral", frustrated |-> "Frustrated",
   dissatisfied |-> "Dissatisfied"]
FRICTION_LABELS ==
  [tool_failure |-> "Tool Failure", missed_context |-> "Missed Context",
   slow_iteration |-> "Slow Iteration", context_overflow |-> "Context Overflow",
   wrong_approach |-> "Wrong Approach", buggy_code |-> "Buggy Code",
   misunderstood_request |-> "Misunderstood Request",
   hallucinated_info |-> "Hallucinated Info", fabricated_data |-> "Fabricated Data",
   over_engineering |-> "Over-Engineering"]
GOAL_LABELS ==
  [bug_fix |-> "Bug Fix", feature_implementation |-> "Feature Implementation",
   testing_implementation |-> "Testing", refactoring |-> "Refactoring",
   research |-> "Research", data_fix_revert |-> "Data Fix / Revert",
   deployment |-> "Deployment", documentation |-> "Documentation",
   configuration |-> "Configuration", exploration |-> "Exploration",
   code_review |-> "Code Review", design_planning |-> "Design & Planning"]
SESSION_TYPE_LABELS ==
  [single_task |-> "Single Task", multi_task |-> "Multi-Task",
   iterative_refinement |-> "Iterative Refinement", exploration |-> "Exploration",
   q_and_a |-> "Q&A", research |-> "Research", debugging |-> "Debugging",
   design_planning |-> "Design Planning"]
SUCCESS_LABELS ==
  [thorough_research |-> "Thorough Research",
   efficient_implementation |-> "Efficient Implementation",
   clear_explanation |-> "Clear Explanation", good_debugging |-> "Good Debugging",
   good_planning |-> "Good Planning"]

\* TABLE.get(k, k)
LabelOf(table, k) == IF k \in DOMAIN table THEN table[k] ELSE k

\* 'context' in label.lower(), for the labels of the table and the keys the
\* modelled facets use outside it.
ContextRelated(label) == label \in {"Missed Context", "Context Overflow", "context_switch"}

\* A dict with its items in insertion order.
JItems(kv) == [t |-> "dict", kv |-> kv]
\* facet.get(field, default)
FacetGet(facet, field, default) == IF field \in DOMAIN facet THEN facet[field] ELSE default
\* isinstance(v, (int, float))
IsNumber(v) == v.t = "num"
\* `v > 0` raises TypeError for a str or None.
CompareRaises(v) == ~IsNumber(v)

\* counter.get(key, 0)
CounterGet(counter, key) ==
  IF \E i \in 1..Len(counter) : counter[i][1] = key
  THEN counter[CHOOSE i \in 1..Len(counter) : counter[i][1] = key][2] ELSE 0
\* counter[key] += v
CounterAdd(counter, key, v) ==
  IF \E i \in 1..Len(counter) : counter[i][1] = key
  THEN LET i == CHOOSE i \in 1..Len(counter) : counter[i][1] = key
       IN  [counter EXCEPT ![i] = <<key, @[2] + v>>]
  ELSE Append(counter, <<key, v>>)
\* sum(counter.values())
RECURSIVE CounterSum(_)
CounterSum(counter) == IF counter = << >> THEN 0 ELSE counter[1][2] + CounterSum(Tail(counter))

\* Lines 146-148: the numeric items of one dict added to result.
RECURSIVE AddItems(_, _)
AddItems(result, kv) ==
  IF kv = << >> THEN result
  ELSE LET next == IF IsNumber(kv[1][2]) THEN CounterAdd(result, kv[1][1], kv[1][2].n)
                   ELSE result
       IN  Then(next, AddItems(next, Tail(kv)))

\* aggregate_dict_field(facets, field), lines 140-149.
RECURSIVE AggregateFrom(_, _, _)
AggregateFrom(result, facets, field) ==
  IF facets = << >> THEN result
  ELSE LET val == FacetGet(facets[1], field, JItems(<< >>))
           next == IF IsDict(val) THEN AddItems(result, val.kv) ELSE result
       IN  Then(next, AggregateFrom(next, Tail(facets), field))
aggregate_dict_field(facets, field) == AggregateFrom(<< >>, facets, field)

\* Counter(f.get(field, default) for f in facets)
RECURSIVE CountField(_, _, _, _)
CountField(result, facets, field, default) ==
  IF facets = << >> THEN result
  ELSE LET next == CounterAdd(result, FacetGet(facets[1], field, default), 1)
       IN  Then(next, CountField(next, Tail(facets), field, default))

\* Lines 404-408: the Counter of the primary_success values that are set.
RECURSIVE CountSuccesses(_, _)
CountSuccesses(result, facets) ==
  IF facets = << >> THEN result
  ELSE LET ps_ == FacetGet(facets[1], "primary_success", JNull)
           next == IF ps_ \notin {JNull, Atom(""), Atom("None")}
                   THEN CounterAdd(result, ps_, 1) ELSE result
       IN  Then(next, CountSuccesses(next, Tail(facets)))

\* A percentage the code computes in floating point, count / total * 100,
\* kept as the exact fraction num / den (den > 0).
Percent(count, total) == [num |-> count * 100, den |-> total]
\* a * 100 // b
FloorPercent(a, b) == (a * 100) \div b

\* (f.get('friction_counts') or {}), line 419, as the items of the dict.
FrictionOrEmpty(f) ==
  LET v == FacetGet(f, "friction_counts", JNull) IN IF IsDict(v) THEN v.kv ELSE << >>
\* any(v > 0 for v in values), line 419: "true", "false", or "raise" when a
\* value that is no number is compared before a positive one is found.
RECURSIVE AnyPositive(_)
AnyPositive(kv) ==
  IF kv = << >> THEN "false"
  ELSE IF CompareRaises(kv[1][2]) THEN "raise"
  ELSE IF kv[1][2].n > 0 THEN "true"
  ELSE AnyPositive(Tail(kv))
\* Lines 417-420.
\* Mutant: a session counts as soon as it carries friction counts, positive
\* or not.
SessionsWithFrictionEntry(facets) ==
  Cardinality({i \in 1..Len(facets) : "friction_counts" \in DOMAIN facets[i]})

SessionsWithFriction(facets) ==
  Cardinality({i \in 1..Len(facets) : AnyPositive(FrictionOrEmpty(facets[i])) = "true"})

\* The lists in a fixed order, lines 425-447: an entry for every key of the
\* order whose count is positive.
RECURSIVE OrderedList(_, _, _)
OrderedList(order, counter, table) ==
  IF order = << >> THEN << >>
  ELSE (IF CounterGet(counter, Atom(order[1])) > 0
        THEN << [label |-> LabelOf(table, order[1]),
                 count |-> CounterGet(counter, Atom(order[1]))] >>
        ELSE << >>)
       \o OrderedList(Tail(order), counter, table)
\* The same for a Counter of a mapping-valued field, whose keys are dict keys.
RECURSIVE OrderedKeyList(_, _, _)
OrderedKeyList(order, counter, table) ==
  IF order = << >> THEN << >>
  ELSE (IF CounterGet(counter, order[1]) > 0
        THEN << [label |-> LabelOf(table, order[1]),
                 count |-> CounterGet(counter, order[1])] >>
        ELSE << >>)
       \o OrderedKeyList(Tail(order), counter, table)

\* Mutant: the classes in alphabetical order.
outcome_order_by_name ==
  <<"abandoned", "fully_achieved", "mostly_achieved", "not_achieved", "partially_achieved",
    "unclear">>

outcome_order ==
  <<"fully_achieved", "mostly_achieved", "partially_achieved", "not_achieved",
    "abandoned", "unclear">>
satisfaction_order == <<"satisfied", "neutral", "frustrated", "dissatisfied">>
\* Mutant: the list also has an entry for the facets without a rating.
helpfulness_order_with_unknown ==
  <<"essential", "very_helpful", "moderately_helpful", "slightly_helpful", "unhelpful",
    "unknown">>

helpfulness_order ==
  <<"essential", "very_helpful", "moderately_helpful", "slightly_helpful", "unhelpful">>

\* Lines 427-432: the outcome entries also carry count * 100 / total.
OutcomesList(outcomes, total) ==
  LET l == OrderedList(outcome_order, outcomes, OUTCOME_LABELS)
  IN  [i \in 1..Len(l) |->
         [label |-> l[i].label, count |-> l[i].count, pct |-> Percent(l[i].count, total)]]

\* The lists in frequency order, lines 449-471: the items of most_common()
\* with a positive count, labelled.  The key of a Counter item is a dict key
\* (a str) or, for a categorical field, the JSON str of the facet.
RECURSIVE FrequencyList(_, _, _)
FrequencyList(common, table, categorical) ==
  IF common = << >> THEN << >>
  ELSE (IF common[1][2] > 0
        THEN << <<LabelOf(table, IF categorical THEN common[1][1].a ELSE common[1][1]),
                  common[1][2]>> >>
        ELSE << >>)
       \o FrequencyList(Tail(common), table, categorical)

\* The manifest report.py loads: None when session_manifest.json is absent,
\* else a dict with the list `sessions` of the entries preprocess.py wrote.
\* A timestamp is kept as <<year, month, day>>.
NoManifest == JNull
Manifest(sessions) == [t |-> "dict", sessions |-> sessions]
Stamp(y, m, d) == [t |-> "str", iso |-> <<y, m, d>>]
MonthAbbr == <<"Jan", "Feb", "Mar", "Apr", "May", "Jun", "Jul", "Aug", "Sep", "Oct", "Nov", "Dec">>
\* dt.strftime('%b %d')
MonthDay(ts) == <<MonthAbbr[ts.iso[2]], ts.iso[3]>>
\* manifest.get('sessions', []) if manifest else []
SessionsOf(manifest) == IF manifest = NoManifest THEN << >> ELSE manifest.sessions

\* format_date_from_facet, lines 194-207.
format_date_from_facet(facet, manifest) ==
  LET ss == SessionsOf(manifest)
      hits == {i \in 1..Len(ss) :
                 /\ ss[i].session_id = FacetGet(facet, "session_id", JNull)
                 /\ ss[i].start_time # JNull}
  IN  IF hits = {} THEN <<"Unknown date">>
      ELSE MonthDay(ss[CHOOSE i \in hits : \A j \in hits : i <= j].start_time)

StampLess(a, b) ==
  \/ a.iso[1] < b.iso[1]
  \/ a.iso[1] = b.iso[1] /\ a.iso[2] < b.iso[2]
  \/ a.iso[1] = b.iso[1] /\ a.iso[2] = b.iso[2] /\ a.iso[3] < b.iso[3]
\* compute_date_range, lines 172-191.
compute_date_range(facets, manifest) ==
  LET ss == SessionsOf(manifest)
      dates == {ss[i].start_time : i \in 1..Len(ss)} \cup {ss[i].end_time : i \in 1..Len(ss)}
      set == dates \ {JNull}
  IN  IF set = {} THEN <<"Date range unknown">>
      ELSE LET first == CHOOSE a \in set : \A b \in set : ~StampLess(b, a)
               last == CHOOSE a \in set : \A b \in set : ~StampLess(a, b)
           IN  <<MonthDay(first), MonthDay(last), last.iso[1]>>

\* The number of friction types of a facet instead of the sum of their counts.
FrictionTotalEntries(kv) == Len(kv)

\* sum(v for v in fc.values() if isinstance(v, (int, float))), line 477.
RECURSIVE FrictionTotal(_)
FrictionTotal(kv) ==
  IF kv = << >> THEN 0
  ELSE (IF IsNumber(kv[1][2]) THEN kv[1][2].n ELSE 0) + FrictionTotal(Tail(kv))
\* [(FRICTION_LABELS.get(k, k), v) for k, v in fc.items() if v > 0], line 485
RECURSIVE PositiveFrictions(_)
PositiveFrictions(kv) ==
  IF kv = << >> THEN << >>
  ELSE (IF kv[1][2].n > 0 THEN << <<LabelOf(FRICTION_LABELS, kv[1][1]), kv[1][2].n>> >>
        ELSE << >>)
       \o PositiveFrictions(Tail(kv))
\* sorted(pairs, key=lambda x: x[1], reverse=True): a stable sort by
\* decreasing count, which is the order of most_common().
SortedByCount(pairs) == MostCommon(pairs)

\* f.get('friction_counts', {}), line 476
FrictionCounts(f) == FacetGet(f, "friction_counts", JItems(<< >>))

\* Lines 475-488 raise for this facet: fc is None and has no values(), or a
\* value that is no number is compared with 0 at line 485.
FrictionEntryRaises(f) ==
  LET fc == FrictionCounts(f)
  IN  IF ~IsDict(fc) THEN TRUE
      ELSE /\ FrictionTotal(fc.kv) > 0
           /\ \E i \in 1..Len(fc.kv) : CompareRaises(fc.kv[i][2])

\* Lines 479-488.
FrictionEntry(f, manifest) ==
  [session_id |-> FacetGet(f, "session_id", JStr(<< >>)),
   date |-> format_date_from_facet(f, manifest),
   summary |-> FacetGet(f, "brief_summary", Atom("")),
   friction_total |-> FrictionTotal(FrictionCounts(f).kv),
   frictions |-> SortedByCount(PositiveFrictions(FrictionCounts(f).kv))]

\* Lines 474-488.
RECURSIVE FrictionSessions(_, _)
FrictionSessions(facets, manifest) ==
  IF facets = << >> THEN << >>
  ELSE (IF FrictionTotal(FrictionCounts(facets[1]).kv) > 0
        THEN << FrictionEntry(facets[1], manifest) >> ELSE << >>)
       \o FrictionSessions(Tail(facets), manifest)

\* Mutant: the sort of line 489 is missing.
Unsorted(sessions) == sessions

\* friction_sessions.sort(key=lambda x: x['friction_total'], reverse=True),
\* line 489: stable, by decreasing friction_total.
RECURSIVE SortByFrictionTotal(_)
SortByFrictionTotal(sessions) ==
  IF sessions = << >> THEN << >>
  ELSE LET i == CHOOSE i \in 1..Len(sessions) :
                  \A j \in 1..Len(sessions) :
                     /\ sessions[j].friction_total <= sessions[i].friction_total
                     /\ (sessions[j].friction_total = sessions[i].friction_total => i <= j)
       IN  << sessions[i] >>
             \o SortByFrictionTotal(SubSeq(sessions, 1, i - 1)
                                      \o SubSeq(sessions, i + 1, Len(sessions)))

\* Lines 473-490.
TopFriction(facets, manifest) ==
  Take(SortByFrictionTotal(FrictionSessions(facets, manifest)), TOP_FRICTION_SESSIONS_CAP)

\* list((f.get('goal_categories') or {}).keys()), line 496
GoalKeys(f) ==
  LET v == FacetGet(f, "goal_categories", JNull)
  IN  IF IsDict(v) THEN [i \in 1..Len(v.kv) |-> v.kv[i][1]] ELSE << >>
\* Lines 493-504.
RECURSIVE BestSessionsFrom(_, _)
BestSessionsFrom(facets, manifest) ==
  IF facets = << >> THEN << >>
  ELSE (IF FacetGet(facets[1], "claude_helpfulness", JNull) = Atom("essential")
        THEN LET goals == Take(GoalKeys(facets[1]), 3)
             IN  << [session_id |-> FacetGet(facets[1], "session_id", JStr(<< >>)),
                     date |-> format_date_from_facet(facets[1], manifest),
                     summary |-> FacetGet(facets[1], "brief_summary", Atom("")),
                     helpfulness |-> "Essential",
                     goals |-> [i \in 1..Len(goals) |-> LabelOf(GOAL_LABELS, goals[i])]] >>
        ELSE << >>)
       \o BestSessionsFrom(Tail(facets), manifest)
BestSessions(facets, manifest) == Take(BestSessionsFrom(facets, manifest), BEST_SESSIONS_CAP)

\* Mutant: only sessions with more than 10 subagents count.
SubagentExplosionsAbove(facets, manifest) ==
  LET ss == SessionsOf(manifest)
  IN  SelectSeq(facets,
                LAMBDA f : \E i \in 1..Len(ss) :
                              /\ ss[i].session_id = FacetGet(f, "session_id", JNull)
                              /\ ss[i].subagent_count > SUBAGENT_EXPLOSION_MIN)

\* Lines 509-516: the facets whose session has 10 or more subagents in the
\* manifest.
SubagentExplosions(facets, manifest) ==
  LET ss == SessionsOf(manifest)
  IN  SelectSeq(facets,
                LAMBDA f : \E i \in 1..Len(ss) :
                              /\ ss[i].session_id = FacetGet(f, "session_id", JNull)
                              /\ ss[i].subagent_count >= SUBAGENT_EXPLOSION_MIN)
WithOutcome(facets, outcome) ==
  SelectSeq(facets, LAMBDA f : FacetGet(f, "outcome", JNull) = Atom(outcome))
\* ', '.join(f.get('session_id', '')[:8] for f in class[:5]), as the list joined
ShortIds(class) ==
  LET first == Take(class, 5)
  IN  [i \in 1..Len(first) |-> Slice(FacetGet(first[i], "session_id", JStr(<< >>)).s, 8)]
AnomalyOf(kind, class) ==
  IF class = << >> THEN << >>
  ELSE << [kind |-> kind, count |-> Len(class), ids |-> ShortIds(class)] >>
\* Lines 506-540.
Anomalies(facets, manifest) ==
  AnomalyOf("subagents", SubagentExplosions(facets, manifest))
    \o AnomalyOf("not_achieved", WithOutcome(facets, "not_achieved"))
    \o AnomalyOf("abandoned", WithOutcome(facets, "abandoned"))

\* f'{x:.0f}' of a fraction: rounded to the nearest integer, a half to even.
RoundPercent(p) ==
  LET q == p.num \div p.den
      r == p.num % p.den
  IN  IF 2 * r < p.den THEN q
      ELSE IF 2 * r > p.den THEN q + 1
      ELSE IF q % 2 = 0 THEN q ELSE q + 1

\* The rate taken over the satisfied signals alone instead of over all of them.
DissatisfactionPctOverSatisfied(sat) ==
  IF CounterGet(sat, "satisfied") # 0
  THEN FloorPercent(CounterGet(sat, "dissatisfied") + CounterGet(sat, "frustrated"),
                    CounterGet(sat, "satisfied"))
  ELSE 0

\* (dissatisfied + frustrated) * 100 // total if total else 0, lines 559-565
DissatisfactionPct(sat) ==
  IF CounterSum(sat) # 0
  THEN FloorPercent(CounterGet(sat, "dissatisfied") + CounterGet(sat, "frustrated"),
                    CounterSum(sat))
  ELSE 0

\* Lines 543-590.  native_facets is what lines 545-552 loaded: empty when the
\* comparison is switched off or the directory is missing or holds no facet.
Comparison(facets, native_facets) ==
  IF native_facets = << >> THEN JNull
  ELSE
    LET native_help == CountField(<< >>, native_facets, "claude_helpfulness", Atom(""))
        native_outcomes == CountField(<< >>, native_facets, "outcome", Atom(""))
        native_sat == aggregate_dict_field(native_facets, "user_satisfaction_counts")
        native_total == Len(native_facets)
        total == Len(facets)
        outcomes == CountField(<< >>, facets, "outcome", Atom("unclear"))
        helpfulness == CountField(<< >>, facets, "claude_helpfulness", Atom("unknown"))
        satisfaction == aggregate_dict_field(facets, "user_satisfaction_counts")
        helpful_count == CounterGet(helpfulness, Atom("essential"))
                           + CounterGet(helpfulness, Atom("very_helpful"))
    IN  [t |-> "dict",
         rows |->
           << [metric |-> "Sessions analyzed", native |-> native_total, deep |-> total],
              [metric |-> "Dissatisfaction rate",
               native |-> DissatisfactionPct(native_sat),
               deep |-> DissatisfactionPct(satisfaction)],
              [metric |-> "Goals fully achieved",
               native |-> IF native_total # 0
                          THEN FloorPercent(CounterGet(native_outcomes, Atom("fully_achieved")),
                                            native_total)
                          ELSE 0,
               deep |-> FloorPercent(CounterGet(outcomes, Atom("fully_achieved")), total)],
              [metric |-> "Claude helpful+",
               native |-> IF native_total # 0
                          THEN FloorPercent(CounterGet(native_help, Atom("essential"))
                                              + CounterGet(native_help, Atom("very_helpful")),
                                            native_total)
                          ELSE 0,
               deep |-> RoundPercent(Percent(helpful_count, total))] >>]

(***************************************************************************)
(* The generated texts, each kept as the list of its parts; a part is a    *)
(* record of the sentence it is and of the numbers printed in it.          *)
(* friction_types is the list of <<label, count>>; the colour that the     *)
(* code carries along with an entry is a constant of its key.              *)
(***************************************************************************)
RECURSIVE SumFrictionTotals(_)
SumFrictionTotals(sessions) ==
  IF sessions = << >> THEN 0
  ELSE sessions[1].friction_total + SumFrictionTotals(Tail(sessions))
RECURSIVE SumContext(_)
SumContext(friction_types) ==
  IF friction_types = << >> THEN 0
  ELSE (IF ContextRelated(friction_types[1][1]) THEN friction_types[1][2] ELSE 0)
       + SumContext(Tail(friction_types))
MinOf(a, b) == IF a < b THEN a ELSE b

\* Lines 217-225.
ConcentrationPart(total_friction, top_friction_sessions) ==
  IF top_friction_sessions # << >> /\ total_friction > 0
  THEN LET top5_total ==
             SumFrictionTotals(Take(top_friction_sessions, CONCENTRATION_TOP))
       IN  << [kind |-> "friction_concentrates",
               top |-> MinOf(CONCENTRATION_TOP, Len(top_friction_sessions)),
               events |-> top5_total,
               of |-> total_friction,
               pct |-> FloorPercent(top5_total, total_friction)] >>
  ELSE << >>

\* generate_friction_insight, lines 210-252.
generate_friction_insight(friction_types, total_friction, friction_count, total_sessions, top_friction_sessions) ==
  IF friction_types = << >> THEN << [kind |-> "no_friction"] >>
  ELSE
    LET sorted_friction == SortedByCount(friction_types)
        context_friction == SumContext(friction_types)
        frictionless == total_sessions - friction_count
    IN  ConcentrationPart(total_friction, top_friction_sessions)
          \o << [kind |-> "top_type", label |-> sorted_friction[1][1],
                 events |-> sorted_friction[1][2]] >>
          \o (IF context_friction > 0
              THEN << [kind |-> "context", events |-> context_friction] >> ELSE << >>)
          \o << [kind |-> "frictionless", count |-> frictionless, of |-> total_sessions,
                 pct |-> FloorPercent(frictionless, total_sessions)] >>

\* generate_excels_text, lines 255-265.
generate_excels_text(primary_successes, goal_categories, total_sessions) ==
  LET top3 == Take(primary_successes, 3)
  IN  IF top3 = << >> THEN << [kind |-> "not_enough_data"] >>
      ELSE [i \in 1..Len(top3) |->
              [kind |-> "success", label |-> top3[i][1], count |-> top3[i][2],
               pct |-> IF total_sessions # 0
                       THEN FloorPercent(top3[i][2], total_sessions) ELSE 0]]

\* generate_struggles_text, lines 268-277.
generate_struggles_text(friction_types, total_friction) ==
  LET top3 == Take(friction_types, 3)
  IN  IF friction_types = << >> THEN << [kind |-> "no_patterns"] >>
      ELSE [i \in 1..Len(top3) |->
              [kind |-> "friction", label |-> top3[i][1], count |-> top3[i][2],
               pct |-> IF total_friction # 0
                       THEN FloorPercent(top3[i][2], total_friction) ELSE 0]]

\* label.lower()
Lower(label) == <<"lower", label>>
\* generate_usage_narrative, lines 280-299.
generate_usage_narrative(goal_categories, session_types, total_sessions) ==
  IF goal_categories = << >> THEN << [kind |-> "not_enough_data"] >>
  ELSE
    LET top_type == IF session_types # << >> THEN session_types[1] ELSE <<"unknown", 0>>
        goals == Take(goal_categories, 3)
    IN  << [kind |-> "usage", sessions |-> total_sessions,
            goals |-> [i \in 1..Len(goals) |-> <<Lower(goals[i][1]), goals[i][2]>>],
            top_type |-> <<Lower(top_type[1]), top_type[2]>>] >>

\* generate_methodology, lines 365-387: four paragraphs, the first printing
\* total_sessions.
generate_methodology(total_sessions, manifest) ==
  << [kind |-> "data_source", sessions |-> total_sessions], [kind |-> "preprocessing"],
     [kind |-> "analysis"], [kind |-> "limitations"] >>

(***************************************************************************)
(* generate_recommendations, lines 302-362.                                *)
(***************************************************************************)
CONTEXT_OVERFLOW_MIN == 3
TOOL_FAILURE_MIN == 5
FABRICATED_DATA_MIN == 1
WRONG_APPROACH_MIN == 5
MISSED_CONTEXT_MIN == 3

Recommendation(title, count) == [title |-> title, count |-> count]
Monthly == [title |-> "Run Deep Insights Monthly"]
\* One gated candidate: the recommendation when its threshold holds.
Gated(holds, title, count) == IF holds THEN << Recommendation(title, count) >> ELSE << >>

\* Mutant: the research candidate is tested after missed_context, and with
\* >= in place of >.
GatedCandidatesReordered(friction_counter, total_sessions, goal_counter) ==
  Gated(CounterGet(friction_counter, "context_overflow") >= CONTEXT_OVERFLOW_MIN,
        "Manage Session Length", CounterGet(friction_counter, "context_overflow"))
    \o Gated(CounterGet(friction_counter, "tool_failure") >= TOOL_FAILURE_MIN,
             "Add Subagent Limits", CounterGet(friction_counter, "tool_failure"))
    \o Gated(CounterGet(friction_counter, "fabricated_data") >= FABRICATED_DATA_MIN,
             "Add Data Verification Guardrails",
             CounterGet(friction_counter, "fabricated_data"))
    \o Gated(CounterGet(friction_counter, "wrong_approach") >= WRONG_APPROACH_MIN,
             "Provide More Upfront Constraints",
             CounterGet(friction_counter, "wrong_approach"))
    \o Gated(CounterGet(friction_counter, "missed_context") >= MISSED_CONTEXT_MIN,
             "Start Sessions with Context Loading",
             CounterGet(friction_counter, "missed_context"))
    \o Gated(CounterGet(goal_counter, "research") * 10 >= total_sessions * 3,
             "Build a Research Skill", CounterGet(goal_counter, "research"))

\* Lines 306-352: the gated candidates in the order of the code.  The test
\* research > total_sessions * 0.3 of line 338 is made on the integers as
\* research * 10 > total_sessions * 3: the double nearest to 0.3 is within
\* relative 2^-54 of it, so the product rounds to the exact value whenever
\* that is an integer, and the comparison with an integer is not changed.
GatedCandidates(friction_counter, total_sessions, goal_counter) ==
  Gated(CounterGet(friction_counter, "context_overflow") >= CONTEXT_OVERFLOW_MIN,
        "Manage Session Length", CounterGet(friction_counter, "context_overflow"))
    \o Gated(CounterGet(friction_counter, "tool_failure") >= TOOL_FAILURE_MIN,
             "Add Subagent Limits", CounterGet(friction_counter, "tool_failure"))
    \o Gated(CounterGet(friction_counter, "fabricated_data") >= FABRICATED_DATA_MIN,
             "Add Data Verification Guardrails",
             CounterGet(friction_counter, "fabricated_data"))
    \o Gated(CounterGet(friction_counter, "wrong_approach") >= WRONG_APPROACH_MIN,
             "Provide More Upfront Constraints",
             CounterGet(friction_counter, "wrong_approach"))
    \o Gated(CounterGet(goal_counter, "research") * 10 > total_sessions * 3,
             "Build a Research Skill", CounterGet(goal_counter, "research"))
    \o Gated(CounterGet(friction_counter, "missed_context") >= MISSED_CONTEXT_MIN,
             "Start Sessions with Context Loading",
             CounterGet(friction_counter, "missed_context"))

\* Mutant: the monthly recommendation is not appended.
generate_recommendations_no_monthly(friction_counter, total_sessions, goal_counter, session_types) ==
  Take(GatedCandidates(friction_counter, total_sessions, goal_counter), RECOMMENDATIONS_CAP)

generate_recommendations(friction_counter, total_sessions, goal_counter, session_types) ==
  Take(Append(GatedCandidates(friction_counter, total_sessions, goal_counter), Monthly),
       RECOMMENDATIONS_CAP)

(***************************************************************************)
(* build_report_data, lines 390-625, for a non-empty list of facets.       *)
(***************************************************************************)
\* datetime.now().strftime('%b %d, %Y') of line 596, on the day of the run.
GeneratedDate == <<"Nov", 4, 2026>>

\* An uncaught TypeError or AttributeError leaves build_report_data: at line
\* 419 a friction value that is no number is compared with 0, at line 477
\* friction_counts is None, at line 485 a value that is no number is
\* compared.
BuildReportRaises(facets) ==
  \E i \in 1..Len(facets) :
     IF AnyPositive(FrictionOrEmpty(facets[i])) = "raise" THEN TRUE
     ELSE FrictionEntryRaises(facets[i])

build_report_data(facets, manifest, native_facets) ==
  LET total == Len(facets)
      outcomes == CountField(<< >>, facets, "outcome", Atom("unclear"))
      satisfaction == aggregate_dict_field(facets, "user_satisfaction_counts")
      helpfulness == CountField(<< >>, facets, "claude_helpfulness", Atom("unknown"))
      session_types == CountField(<< >>, facets, "session_type", Atom("unknown"))
      goal_categories == aggregate_dict_field(facets, "goal_categories")
      friction_counter == aggregate_dict_field(facets, "friction_counts")
      primary_successes == CountSuccesses(<< >>, facets)
      goals_achieved == CounterGet(outcomes, Atom("fully_achieved"))
                          + CounterGet(outcomes, Atom("mostly_achieved"))
      helpful_count == CounterGet(helpfulness, Atom("essential"))
                         + CounterGet(helpfulness, Atom("very_helpful"))
      sessions_with_friction == SessionsWithFriction(facets)
      total_friction == CounterSum(friction_counter)
      goal_list == FrequencyList(MostCommon(goal_categories), GOAL_LABELS, FALSE)
      type_list == FrequencyList(MostCommon(session_types), SESSION_TYPE_LABELS, TRUE)
      success_list == FrequencyList(MostCommon(primary_successes), SUCCESS_LABELS, TRUE)
      friction_list == FrequencyList(MostCommon(friction_counter), FRICTION_LABELS, FALSE)
      top_friction == TopFriction(facets, manifest)
  IN  [total_sessions |-> total,
       date_range |-> compute_date_range(facets, manifest),
       generated_date |-> GeneratedDate,
       goals_achieved_pct |-> IF total # 0 THEN Percent(goals_achieved, total) ELSE Percent(0, 1),
       helpful_pct |-> IF total # 0 THEN Percent(helpful_count, total) ELSE Percent(0, 1),
       friction_count |-> sessions_with_friction,
       friction_pct |->
         IF total # 0 THEN Percent(sessions_with_friction, total) ELSE Percent(0, 1),
       total_friction_events |-> total_friction,
       outcomes |-> OutcomesList(outcomes, total),
       satisfaction |-> OrderedKeyList(satisfaction_order, satisfaction, SATISFACTION_LABELS),
       helpfulness |-> OrderedList(helpfulness_order, helpfulness, HELPFULNESS_LABELS),
       goal_categories |-> goal_list,
       session_types |-> type_list,
       primary_successes |-> success_list,
       friction_types |-> friction_list,
       friction_insight |->
         generate_friction_insight(friction_list, total_friction, sessions_with_friction,
                                   total, top_friction),
       top_friction_sessions |-> top_friction,
       best_sessions |-> BestSessions(facets, manifest),
       anomalies |-> Anomalies(facets, manifest),
       excels_text |-> generate_excels_text(success_list, goal_list, total),
       struggles_text |-> generate_struggles_text(friction_list, total_friction),
       usage_narrative |-> generate_usage_narrative(goal_list, type_list, total),
       recommendations |->
         generate_recommendations(friction_counter, total, goal_categories, session_types),
       comparison |-> Comparison(facets, native_facets),
       methodology_text |-> generate_methodology(total, manifest)]

\* render(data), line 680: the page is a function of the dataset alone.
render(data) == [k |-> "html", data |-> data]

(***************************************************************************)
(* The facet collections checked.  As for the logs, a collection is        *)
(* generated facet by facet from a shape [pre, cyc]; the annotation step   *)
(* appends one facet at a time to all_facets.json, and the report may be   *)
(* generated after any of them.  The session id of the i-th facet is "s"   *)
(* followed by i + 3 zeros, so that ids of more than 8 characters occur.   *)
(***************************************************************************)
MaxFacets == 12
MaxShortFacets == 2

FacetId(i) == JStr(Cat(Rep("s", 1), Rep("0", i + 3)))
Counts(kv) == JItems([i \in 1..Len(kv) |-> <<kv[i][1], JNum(kv[i][2])>>])
NoFields == [k \in {} |-> JNull]
Fields(f) == [kind |-> "fields", fields |-> f]
ByPosition == [kind |-> "by_position"]

Facet(tpl, i) ==
  IF tpl.kind = "fields" THEN tpl.fields @@ ("session_id" :> FacetId(i))
  ELSE \* friction counts, outcome and goals that depend on the position
    ("session_id" :> FacetId(i))
      @@ ("outcome" :> Atom(IF i % 2 = 0 THEN "abandoned" ELSE "partially_achieved"))
      @@ ("claude_helpfulness" :> Atom("essential"))
      @@ ("session_type" :> Atom(IF i % 3 = 0 THEN "debugging" ELSE "pairing"))
      @@ ("primary_success" :> Atom(IF i % 3 = 0 THEN "good_debugging" ELSE "speed"))
      @@ ("brief_summary" :> Atom("summary"))
      @@ ("goal_categories" :>
            Counts(<< <<"bug_fix", 1>>, <<"research", i % 2>>, <<"chores", 2>>,
                      <<"deployment", 1>> >>))
      @@ ("user_satisfaction_counts" :>
            Counts(<< <<"satisfied", i % 3>>, <<"frustrated", i % 2>>, <<"likely_happy", 1>> >>))
      @@ ("friction_counts" :>
            Counts(<< <<"tool_failure", i % 4>>, <<"context_overflow", (i * 2) % 3>>,
                      <<"context_switch", i % 2>> >>))

HasFacet(fshape, i) == i <= Len(fshape.pre) \/ fshape.cyc # << >>
FacetAt(fshape, i) ==
  IF i <= Len(fshape.pre) THEN Facet(fshape.pre[i], i)
  ELSE Facet(fshape.cyc[((i - Len(fshape.pre) - 1) % Len(fshape.cyc)) + 1], i)

Plain == Fields(NoFields)
OneFriction ==
  Fields(("outcome" :> Atom("not_achieved"))
           @@ ("friction_counts" :> Counts(<< <<"tool_failure", 1>> >>)))
Rich ==
  Fields(("outcome" :> Atom("fully_achieved")) @@ ("claude_helpfulness" :> Atom("essential"))
           @@ ("primary_success" :> Atom("good_debugging"))
           @@ ("session_type" :> Atom("debugging"))
           @@ ("goal_categories" :> Counts(<< <<"bug_fix", 1>>, <<"research", 1>> >>))
           @@ ("user_satisfaction_counts" :> Counts(<< <<"satisfied", 2>> >>)))
Unhappy ==
  Fields(("outcome" :> Atom("mostly_achieved"))
           @@ ("claude_helpfulness" :> Atom("very_helpful"))
           @@ ("primary_success" :> Atom("None"))
           @@ ("user_satisfaction_counts" :>
                 Counts(<< <<"frustrated", 1>>, <<"dissatisfied", 1>>, <<"neutral", 1>> >>))
           @@ ("friction_counts" :>
                 Counts(<< <<"missed_context", 1>>, <<"tool_failure", 2>> >>)))
ZeroCounts ==
  Fields(("claude_helpfulness" :> Atom("unhelpful"))
           @@ ("user_satisfaction_counts" :> Counts(<< <<"neutral", 0>> >>))
           @@ ("friction_counts" :> Counts(<< <<"buggy_code", 0>> >>)))
\* Facets with a mapping-valued field that is null or holds a value that is
\* no number.
NullFriction == Fields("friction_counts" :> JNull)
TextFriction == Fields("friction_counts" :> JItems(<< <<"tool_failure", Atom("many")>> >>))
LateNullFriction ==
  Fields("friction_counts" :>
           JItems(<< <<"tool_failure", JNum(1)>>, <<"slow_iteration", JNull>> >>))
NullCounts ==
  Fields(("user_satisfaction_counts" :> JNull) @@ ("goal_categories" :> JNull))
TextCounts ==
  Fields(("user_satisfaction_counts" :>
            JItems(<< <<"satisfied", Atom("yes")>>, <<"frustrated", JNum(1)>> >>))
           @@ ("goal_categories" :>
                 JItems(<< <<"research", Atom("many")>>, <<"bug_fix", JNum(2)>> >>)))
Malformed == {NullFriction, TextFriction, LateNullFriction}

ShortFacetTpls ==
  {Plain, OneFriction, Rich, Unhappy, ZeroCounts, NullCounts, TextCounts, ByPosition}
    \cup Malformed
    \cup {Fields("outcome" :> Atom(o)) : o \in {"abandoned", "unclear"}}
    \cup {Fields(("outcome" :> Atom("cancelled")) @@ ("claude_helpfulness" :> Atom("amazing")))}
ShortFacetShapes ==
  {[pre |-> pre, cyc |-> << >>] : pre \in SeqsUpTo(ShortFacetTpls, MaxShortFacets)}
LongFacetShapes ==
  {[pre |-> << >>, cyc |-> cyc] :
     cyc \in {<<OneFriction>>, <<ByPosition>>, <<OneFriction, Plain>>,
              <<Rich, ByPosition, Unhappy>>,
              <<Rich, OneFriction, Fields("outcome" :> Atom("abandoned")), Plain>>,
              <<OneFriction, OneFriction, Fields("outcome" :> Atom("abandoned"))>>,
              <<ZeroCounts, Plain, Unhappy>>}}

\* One facet at every combination of counts just below and at the
\* thresholds of generate_recommendations, then facets without fields.
ThresholdFacet(co, tf, fd, wa, mc, research) ==
  Fields(("friction_counts" :>
            Counts(<< <<"context_overflow", co>>, <<"tool_failure", tf>>,
                      <<"fabricated_data", fd>>, <<"wrong_approach", wa>>,
                      <<"missed_context", mc>> >>))
           @@ ("goal_categories" :> Counts(<< <<"research", research>> >>)))
ThresholdShapes ==
  {[pre |-> <<ThresholdFacet(co, tf, fd, wa, mc, research)>>, cyc |-> <<Plain>>] :
     co \in {CONTEXT_OVERFLOW_MIN - 1, CONTEXT_OVERFLOW_MIN},
     tf \in {TOOL_FAILURE_MIN - 1, TOOL_FAILURE_MIN},
     fd \in {FABRICATED_DATA_MIN - 1, FABRICATED_DATA_MIN},
     wa \in {WRONG_APPROACH_MIN - 1, WRONG_APPROACH_MIN},
     mc \in {MISSED_CONTEXT_MIN - 1, MISSED_CONTEXT_MIN},
     research \in {0, 3, 4}}

\* The manifest preprocess.py wrote, for the sessions of all facets but the
\* last two; report.py reads session_id, start_time, end_time and
\* subagent_count of an entry.
ManifestSessions ==
  [i \in 1..(MaxFacets - 2) |->
     [session_id |-> FacetId(i),
      start_time |-> IF i % 4 = 0 THEN JNull ELSE Stamp(2026, 1 + (i % 3), i),
      end_time |-> IF i % 4 = 0 THEN JNull ELSE Stamp(2026, 2 + (i % 3), i),
      subagent_count |-> IF i % 2 = 0 THEN SUBAGENT_EXPLOSION_MIN
                         ELSE SUBAGENT_EXPLOSION_MIN - 1]]
\* The facets of the native /insights, by file.
NativeSets ==
  {<< Facet(Plain, 1) >>, << Facet(Unhappy, 1), Facet(Rich, 2) >>,
   << Facet(ZeroCounts, 1), Facet(TextCounts, 2), Facet(Unhappy, 3) >>}

ReportInput(fshape, manifest, native) ==
  [shape |-> fshape, manifest |-> manifest, native |-> native]
ReportInputs ==
  {ReportInput(sh, Manifest(ManifestSessions), << >>) : sh \in ShortFacetShapes}
    \cup {ReportInput(sh, m, << >>) :
            sh \in LongFacetShapes, m \in {NoManifest, Manifest(ManifestSessions)}}
    \cup {ReportInput(sh, NoManifest, << >>) : sh \in ThresholdShapes}
    \cup {ReportInput([pre |-> << >>, cyc |-> cyc], NoManifest, native) :
            cyc \in {<<Plain>>, <<Unhappy, Rich>>, <<ByPosition>>}, native \in NativeSets}

(***************************************************************************)
(* report.main, lines 628-703, and the steps that produce its input.       *)
(***************************************************************************)
NoData == JNull
reportInputs == <<facet_shape, session_manifest_json, native_facets_dir>>
reportLocals == <<main_facets, main_manifest, main_data, report_html>>
OtherIdle == SessionIdle /\ MainIdle

InitReport ==
  /\ WorkersIdle
  /\ OtherIdle
  /\ \E inp \in ReportInputs :
        /\ facet_shape = inp.shape
        /\ session_manifest_json = inp.manifest
        /\ native_facets_dir = inp.native
  /\ all_facets_json = Absent
  /\ main_facets = << >>
  /\ main_manifest = JNull
  /\ main_data = NoData
  /\ report_html = Absent
  /\ rpc = "idle"

\* The analysis stage writes all_facets.json with no facet in it.
WriteNoFacets ==
  /\ rpc = "idle"
  /\ all_facets_json = Absent
  /\ all_facets_json' = JsonFile(<< >>)
  /\ UNCHANGED <<reportInputs, reportLocals, rpc>>
  /\ UNCHANGED <<sessionVars, mainVars, workerVars>>

\* The analysis stage adds the facet of one more session.
AnnotateSession ==
  /\ rpc = "idle"
  /\ LET have == IF all_facets_json = Absent THEN << >> ELSE all_facets_json.v
     IN  /\ Len(have) < MaxFacets
         /\ HasFacet(facet_shape, Len(have) + 1)
         /\ all_facets_json' = JsonFile(Append(have, FacetAt(facet_shape, Len(have) + 1)))
  /\ UNCHANGED <<reportInputs, reportLocals, rpc>>
  /\ UNCHANGED <<sessionVars, mainVars, workerVars>>

\* load_facets, lines 155-158: without the file, main exits.
FacetsFileMissing ==
  /\ rpc = "idle"
  /\ all_facets_json = Absent
  /\ rpc' = "exit"
  /\ UNCHANGED <<reportInputs, reportLocals, all_facets_json>>
  /\ UNCHANGED <<sessionVars, mainVars, workerVars>>

\* Lines 662-667.
LoadInputs ==
  /\ rpc = "idle"
  /\ all_facets_json # Absent
  /\ main_facets' = all_facets_json.v
  /\ main_manifest' = session_manifest_json
  /\ rpc' = "loaded"
  /\ UNCHANGED <<reportInputs, all_facets_json, main_data, report_html>>
  /\ UNCHANGED <<sessionVars, mainVars, workerVars>>

\* Mutant: an empty list of facets is not refused, and a report is written.
NoFacetsWritesReport ==
  /\ rpc = "loaded"
  /\ main_facets = << >>
  /\ report_html' = render(main_data)
  /\ rpc' = "written"
  /\ UNCHANGED <<reportInputs, all_facets_json, main_facets, main_manifest, main_data>>
  /\ UNCHANGED <<sessionVars, mainVars, workerVars>>

\* Lines 669-671.
NoFacets ==
  /\ rpc = "loaded"
  /\ main_facets = << >>
  /\ rpc' = "exit"
  /\ UNCHANGED <<reportInputs, reportLocals, all_facets_json>>
  /\ UNCHANGED <<sessionVars, mainVars, workerVars>>

\* Line 677, build_report_data returning.
BuildData ==
  /\ rpc = "loaded"
  /\ main_facets # << >>
  /\ ~BuildReportRaises(main_facets)
  /\ main_data' = build_report_data(main_facets, main_manifest, native_facets_dir)
  /\ rpc' = "built"
  /\ UNCHANGED <<reportInputs, all_facets_json, main_facets, main_manifest, report_html>>
  /\ UNCHANGED <<sessionVars, mainVars, workerVars>>

\* Line 677, build_report_data raising: nothing in main catches it.
BuildCrashes ==
  /\ rpc = "loaded"
  /\ main_facets # << >>
  /\ BuildReportRaises(main_facets)
  /\ rpc' = "crashed"
  /\ UNCHANGED <<reportInputs, reportLocals, all_facets_json>>
  /\ UNCHANGED <<sessionVars, mainVars, workerVars>>

\* Lines 680-693.
WriteReport ==
  /\ rpc = "built"
  /\ report_html' = render(main_data)
  /\ rpc' = "written"
  /\ UNCHANGED <<reportInputs, all_facets_json, main_facets, main_manifest, main_data>>
  /\ UNCHANGED <<sessionVars, mainVars, workerVars>>

\* build_report_data(facets, manifest) called on its own with the facets and
\* the manifest on disk: lines 392-395 exit on an empty list, else the
\* dataset is returned or an exception leaves the call.
CallBuildReportData ==
  /\ rpc = "idle"
  /\ all_facets_json # Absent
  /\ main_facets' = all_facets_json.v
  /\ main_manifest' = session_manifest_json
  /\ IF Len(all_facets_json.v) = 0
       THEN rpc' = "exit_build" /\ main_data' = main_data
     ELSE IF BuildReportRaises(all_facets_json.v)
       THEN rpc' = "raised" /\ main_data' = main_data
     ELSE /\ rpc' = "returned"
          /\ main_data' =
               build_report_data(all_facets_json.v, session_manifest_json, native_facets_dir)
  /\ UNCHANGED <<reportInputs, all_facets_json, report_html>>
  /\ UNCHANGED <<sessionVars, mainVars, workerVars>>

NextReport ==
  \/ WriteNoFacets
  \/ AnnotateSession
  \/ FacetsFileMissing
  \/ LoadInputs
  \/ NoFacets
  \/ BuildData
  \/ BuildCrashes
  \/ WriteReport
  \/ CallBuildReportData

SpecReport == InitReport /\ [][NextReport]_vars

\* The user texts and the assistant-stream texts of a log, in the order of
\* its lines, read off the lines one by one.
RECURSIVE UserStream(_)
UserStream(lines) ==
  IF lines = << >> THEN << >>
  ELSE (IF LineRaises(lines[1]) THEN << >>
        ELSE ProcessLine(InitLocals, lines[1]).user_messages)
       \o UserStream(Tail(lines))
RECURSIVE AssistantStream(_)
AssistantStream(lines) ==
  IF lines = << >> THEN << >>
  ELSE (IF LineRaises(lines[1]) THEN << >>
        ELSE ProcessLine(InitLocals, lines[1]).assistant_texts)
       \o AssistantStream(Tail(lines))
TurnsOf(f, role) == SelectSeq(f, LAMBDA e : e.role = role)

\* C16: with U user texts and A assistant-stream texts in the log, the flow
\* has min(U, 40) user turns and min(A, U, 40) assistant turns; the k-th
\* user turn is the k-th user text, the k-th assistant turn is the k-th
\* assistant-stream text and directly follows the k-th user turn; the user
\* turns past the last assistant turn follow one another.
C16_FlowPairsStreams ==
  Returned =>
    LET U == UserStream(log)
        A == AssistantStream(log)
        nu == MinOf(Len(U), 40)
        na == MinOf(MinOf(Len(A), Len(U)), 40)
    IN  /\ Len(TurnsOf(Flow, "user")) = nu
        /\ Len(TurnsOf(Flow, "assistant")) = na
        /\ Len(Flow) = nu + na
        /\ \A k \in 1..na :
              /\ Flow[2 * k - 1] = [role |-> "user", text |-> U[k]]
              /\ Flow[2 * k] = [role |-> "assistant", text |-> A[k]]
        /\ \A k \in (na + 1)..nu : Flow[na + k] = [role |-> "user", text |-> U[k]]

\* C16 witness: a log with more than 40 user texts and more than 40
\* assistant texts, its flow holding 40 turns of each.
C16_Witness ==
  /\ Returned
  /\ Len(UserStream(log)) > 40
  /\ Len(AssistantStream(log)) > 40
  /\ Len(TurnsOf(Flow, "user")) = 40
  /\ Len(TurnsOf(Flow, "assistant")) = 40

\* C22: at every point of the scan and in the summary, tool_details holds
\* the records of the first min(30, N) of the N tool_use blocks read so far,
\* in the order of the log: it never exceeds 30 entries, a later invocation
\* is not added to a full list and an earlier one is not displaced.
C22_FirstThirtyDetails ==
  pc \in {"scan", "done"} =>
    LET blocks == ToolUseBlocks(log)
        n == MinOf(30, Len(blocks))
    IN  /\ Len(ps.tool_details) = n
        /\ \A i \in 1..n : ps.tool_details[i] = ToolInfo(blocks[i])
        /\ Returned => Summary.tool_details = ps.tool_details

\* C22 witness: a log of more than 30 invocations spread over several
\* records, 30 of them in the summary, one of those left out unlike any kept.
C22_Witness ==
  /\ Returned
  /\ Len(ToolUseBlocks(log)) > 30
  /\ Len(Summary.tool_details) = 30
  /\ \E i \in 31..Len(ToolUseBlocks(log)) :
        \A j \in 1..30 : ToolInfo(ToolUseBlocks(log)[i]) # Summary.tool_details[j]

\* The records of the log: the lines that parse to a JSON object.
RecordLines(lines) == {i \in 1..Len(lines) : lines[i].k = "json" /\ lines[i].v.t = "dict"}
SummaryRecords(lines) ==
  {i \in RecordLines(lines) :
     "type" \in DOMAIN lines[i].v.o /\ lines[i].v.o["type"] = Atom("summary")}

\* C23: the flag is set, while scanning and in the summary, exactly when a
\* record of kind summary has been read, with or without a summary text; a
\* record read after it does not reset it.
C23_CompressionFlag ==
  /\ pc \in {"scan", "done"} => (ps.has_summary <=> SummaryRecords(log) # {})
  /\ Returned => (Summary.stats.had_context_compression <=> SummaryRecords(log) # {})

\* C23 witness: the only summary record of the log has no summary text and
\* is followed by a record of another kind; the flag is set.
C23_Witness ==
  /\ Returned
  /\ Summary.stats.had_context_compression
  /\ SummaryRecords(log) = {1}
  /\ "summary" \notin DOMAIN log[1].v.o
  /\ 2 \in RecordLines(log)

\* The timestamps the records of the log carry.
StampsOf(lines) ==
  {lines[i].v.o["timestamp"] :
     i \in {j \in RecordLines(lines) :
              /\ "timestamp" \in DOMAIN lines[j].v.o
              /\ lines[j].v.o["timestamp"].t = "str"
              /\ lines[j].v.o["timestamp"].s # << >>}}

\* C24: start_time is the earliest and end_time the latest of the
\* timestamps of the records of the log, of whatever kind, so that
\* start_time is not after end_time; both are null when no record carries
\* a timestamp.
C24_TimeBounds ==
  Returned =>
    LET stamps == StampsOf(log)
    IN  IF stamps = {}
        THEN Summary.start_time = JNull /\ Summary.end_time = JNull
        ELSE /\ Summary.start_time \in stamps
             /\ Summary.end_time \in stamps
             /\ \A ts \in stamps : /\ ~StrLess(ts.s, Summary.start_time.s)
                                   /\ ~StrLess(Summary.end_time.s, ts.s)
             /\ ~StrLess(Summary.end_time.s, Summary.start_time.s)

\* C24 witness: three stamped records, the earliest timestamp on the second,
\* a summary record, and the latest on a record of a kind the code does not
\* know.
C24_Witness ==
  /\ Returned
  /\ Len(log) = 3
  /\ Cardinality(StampsOf(log)) = 3
  /\ log[2].v.o["timestamp"] = Summary.start_time
  /\ log[2].v.o["type"] = Atom("summary")
  /\ log[3].v.o["timestamp"] = Summary.end_time
  /\ log[3].v.o["type"] = Atom("system")

\* The sessions of the run that were summarized: taken from the cache, or
\* passed to process_session without it raising.
Summarized ==
  {n \in 1..Len(parent_sessions) :
     ~(IdOf(n) \in calls /\ ProcessSessionRaises(session_files[IdOf(n)]))}
CountIn(usage, name) == usage[CHOOSE i \in 1..Len(usage) : usage[i][1] = name][2]
NamesIn(usage) == {usage[i][1] : i \in 1..Len(usage)}

\* C25: when a run over at least one session has ended, the manifest on
\* disk holds one entry for each session summarized in the run, in the order
\* of the run, and no other; total_sessions is the number of entries; and
\* top_tools of an entry holds 5 tool names of the summary, or all if there
\* are fewer, none of them used less than a name left out.
C25_ManifestRebuilt ==
  RunEnded =>
    /\ manifest_file # Absent
    /\ LET m == manifest_file.v
       IN  /\ Len(m.sessions) = Cardinality(Summarized)
           /\ m.total_sessions = Len(m.sessions)
           /\ Len(all_summaries) = Len(m.sessions)
           /\ \A n \in Summarized :
                 LET k == Cardinality({j \in Summarized : j <= n})
                 IN  /\ m.sessions[k].session_id = IdOf(n)
                     /\ m.sessions[k].project = parent_sessions[n].project
                     /\ m.sessions[k].user_messages = all_summaries[k].stats.user_messages
           /\ \A k \in 1..Len(m.sessions) :
                 LET tops == m.sessions[k].top_tools
                     usage == all_summaries[k].tool_usage
                     held == {tops[i] : i \in 1..Len(tops)}
                 IN  /\ Len(tops) = MinOf(5, Len(usage))
                     /\ Cardinality(held) = Len(tops)
                     /\ held \subseteq NamesIn(usage)
                     /\ \A x \in held : \A y \in NamesIn(usage) \ held :
                           CountIn(usage, x) >= CountIn(usage, y)

\* C25 witness: a second run that reused one summary and computed another,
\* the manifest holding both, one of them with 5 of the 7 tools of its
\* session, a tool invoked late and often among them.
C25_Witness ==
  /\ RunEnded
  /\ run_no = 2
  /\ skipped_count = 1
  /\ new_count = 1
  /\ Len(manifest_file.v.sessions) = 2
  /\ \E k \in 1..2 :
        /\ Len(all_summaries[k].tool_usage) = 7
        /\ Len(manifest_file.v.sessions[k].top_tools) = 5
        /\ manifest_file.v.sessions[k].top_tools[1] = Atom("Write")

\* C27 as stated: when a run ends, the three counters add up to the number
\* of sessions discovered, each session being counted once, and the
\* manifest's total_sessions is new_count + skipped_count.
C27_CountersPartitionSessions ==
  RunEnded =>
    /\ new_count + skipped_count + error_count = Len(parent_sessions)
    /\ manifest_file.v.total_sessions = new_count + skipped_count

\* C28 as stated: when a run ends, every entry of the manifest belongs to a
\* session whose summary file holds the summary the entry was built from.
C28_ManifestEntriesPersisted ==
  RunEnded =>
    \A k \in 1..Len(manifest_file.v.sessions) :
       summary_files[manifest_file.v.sessions[k].session_id] = JsonFile(all_summaries[k])

(***************************************************************************)
(* process_session run by concurrent workers.  Each worker calls           *)
(* process_session on one session of its own; a step of a worker is one    *)
(* iteration of the loop of line 111, and the steps of the workers         *)
(* interleave in any order.  When every worker has finished, the main      *)
(* thread collects the results in the order of the sessions, as the loop   *)
(* of line 297 does, and builds the manifest.                              *)
(***************************************************************************)
NumWorkers == 2
S3 == [project |-> "projB", stem |-> "s3"]
S4 == [project |-> "projA", stem |-> "s4"]
WorkerSessions == <<S1, S2, S3, S4>>

\* Mutant: the locals are module-level state, every call uses those of the
\* first worker.
LocalsOfFirstWorker(w) == wk[1].st

\* The locals of the call of process_session a worker makes (lines 96-108):
\* they are created by the call and belong to it.
LocalsOf(w) == wk[w].st

InitWorkers ==
  /\ SessionIdle
  /\ MainIdle
  /\ ReportIdle
  /\ \E files \in [1..NumWorkers -> SessionFiles] :
        wk = [w \in 1..NumWorkers |->
                [path |-> WorkerSessions[w], file |-> files[w], pos |-> 0,
                 st |-> InitLocals, pc |-> "scan", ret |-> NoReturn]]
  /\ collected = NotCollected
  /\ overlap = FALSE

OthersInLoop(w) == \E v \in DOMAIN wk \ {w} : wk[v].pc = "scan" /\ wk[v].pos > 0

\* open() raises on an unreadable file (line 110).
WorkerOpenRaises(w) ==
  /\ wk[w].pc = "scan"
  /\ ~wk[w].file.readable
  /\ wk' = [wk EXCEPT ![w].pc = "raised"]
  /\ overlap' = (overlap \/ OthersInLoop(w))
  /\ UNCHANGED collected
  /\ UNCHANGED <<sessionVars, mainVars, reportVars>>

\* One iteration of the loop of lines 111-167 in a worker.
WorkerReadLine(w) ==
  /\ wk[w].pc = "scan"
  /\ wk[w].file.readable
  /\ wk[w].pos < Len(wk[w].file.lines)
  /\ LET line == wk[w].file.lines[wk[w].pos + 1]
     IN  \/ /\ ~LineRaises(line)
            /\ wk' = [wk EXCEPT ![w].pos = @ + 1, ![w].st = ProcessLine(LocalsOf(w), line)]
         \/ /\ LineRaises(line)
            /\ wk' = [wk EXCEPT ![w].pos = @ + 1, ![w].pc = "raised"]
  /\ overlap' = (overlap \/ OthersInLoop(w))
  /\ UNCHANGED collected
  /\ UNCHANGED <<sessionVars, mainVars, reportVars>>

\* The file of a worker ends: lines 169-222.
WorkerEndOfFile(w) ==
  /\ wk[w].pc = "scan"
  /\ wk[w].file.readable
  /\ wk[w].pos = Len(wk[w].file.lines)
  /\ wk' = [wk EXCEPT ![w].pc = "done",
                      ![w].ret = <<BuildSummary(wk[w].path, LocalsOf(w), wk[w].file.subagents),
                                   LocalsOf(w).lines_skipped>>]
  /\ overlap' = (overlap \/ OthersInLoop(w))
  /\ UNCHANGED collected
  /\ UNCHANGED <<sessionVars, mainVars, reportVars>>

\* Lines 322-324 and 333-334 on the results of the workers, in the order of
\* the sessions.
RECURSIVE Gather(_, _)
Gather(w, acc) ==
  IF w > Len(wk) THEN acc
  ELSE IF wk[w].pc = "raised" THEN Gather(w + 1, [acc EXCEPT !.error_count = @ + 1])
  ELSE Gather(w + 1, [acc EXCEPT !.all_summaries = Append(@, wk[w].ret[1]),
                                 !.total_lines_skipped = @ + wk[w].ret[2]])

NothingRun == [all_summaries |-> << >>, total_lines_skipped |-> 0, error_count |-> 0]
WithManifest(acc) ==
  [all_summaries |-> acc.all_summaries, total_lines_skipped |-> acc.total_lines_skipped,
   error_count |-> acc.error_count, manifest |-> BuildManifest(acc.all_summaries)]

\* Every worker has finished: the results are collected and the manifest is
\* built (lines 337-354).
Collect ==
  /\ wk # << >>
  /\ \A w \in DOMAIN wk : wk[w].pc \in {"done", "raised"}
  /\ collected = NotCollected
  /\ collected' = WithManifest(Gather(1, NothingRun))
  /\ UNCHANGED <<wk, overlap>>
  /\ UNCHANGED <<sessionVars, mainVars, reportVars>>

NextWorkers ==
  \/ \E w \in 1..NumWorkers : WorkerOpenRaises(w)
  \/ \E w \in 1..NumWorkers : WorkerReadLine(w)
  \/ \E w \in 1..NumWorkers : WorkerEndOfFile(w)
  \/ Collect

SpecWorkers == InitWorkers /\ [][NextWorkers]_vars

\* The serial run: the loop of lines 297-335 over the sessions, none of them
\* with a summary on disk, then the manifest.
RECURSIVE SerialLoop(_, _)
SerialLoop(jobs, acc) ==
  IF jobs = << >> THEN acc
  ELSE IF ProcessSessionRaises(jobs[1].file)
  THEN SerialLoop(Tail(jobs), [acc EXCEPT !.error_count = @ + 1])
  ELSE LET result == process_session(jobs[1].path, jobs[1].file.lines, jobs[1].file.subagents)
       IN  SerialLoop(Tail(jobs),
                      [acc EXCEPT !.all_summaries = Append(@, result[1]),
                                  !.total_lines_skipped = @ + result[2]])
SerialRun(jobs) == WithManifest(SerialLoop(jobs, NothingRun))

\* C26: whatever the interleaving of the workers, a worker that is in the
\* loop holds the locals process_session has after the lines it has read, a
\* worker that has returned holds the summary and the skipped-line count
\* process_session returns for its session, a worker ends by an exception
\* exactly when process_session raises on its session, and the results
\* collected after all workers have finished, the manifest included, are
\* those of the serial run.
C26_WorkersMatchSerial ==
  /\ \A w \in DOMAIN wk :
        /\ (wk[w].pc = "scan" /\ wk[w].file.readable)
             => wk[w].st = ScanLines(InitLocals, SubSeq(wk[w].file.lines, 1, wk[w].pos))
        /\ wk[w].pc = "done"
             => /\ ~ProcessSessionRaises(wk[w].file)
                /\ wk[w].ret = process_session(wk[w].path, wk[w].file.lines,
                                               wk[w].file.subagents)
        /\ wk[w].pc = "raised" => ProcessSessionRaises(wk[w].file)
  /\ collected # NotCollected => collected = SerialRun(wk)

\* C26 witness: two workers have read different logs, one with an
\* unparseable line, each has taken steps while the other was in its loop,
\* and the results have been collected: 2 summaries, 1 line skipped.
C26_Witness ==
  /\ collected # NotCollected
  /\ overlap
  /\ Len(wk) = 2
  /\ wk[1].file.lines = NormalLog
  /\ wk[2].file.lines = BadLineLog
  /\ wk[1].pc = "done"
  /\ wk[2].pc = "done"
  /\ wk[1].ret[2] = 0
  /\ wk[2].ret[2] = 1
  /\ Len(collected.all_summaries) = 2
  /\ collected.total_lines_skipped = 1
  /\ collected.manifest.total_sessions = 2

(***************************************************************************)
(* Claims about the aggregation engine.  The counts a claim speaks of are  *)
(* read off the facets, not off the Counters of build_report_data.         *)
(***************************************************************************)
HasData == rpc \in {"built", "written", "returned"}
Total == Len(main_facets)
\* The number stored under a key of a mapping-valued field of one facet, 0
\* when there is none.
NumberAt(facet, field, key) ==
  IF field \in DOMAIN facet /\ facet[field].t = "dict"
  THEN LET kv == facet[field].kv
           hits == {i \in 1..Len(kv) : kv[i][1] = key /\ kv[i][2].t = "num"}
       IN  IF hits = {} THEN 0 ELSE kv[CHOOSE i \in hits : TRUE][2].n
  ELSE 0
RECURSIVE KeyTotal(_, _, _)
KeyTotal(facets, field, key) ==
  IF facets = << >> THEN 0
  ELSE NumberAt(facets[1], field, key) + KeyTotal(Tail(facets), field, key)
KeysOf(facets, field) ==
  UNION {IF field \in DOMAIN facets[i] /\ facets[i][field].t = "dict"
         THEN {facets[i][field].kv[j][1] : j \in 1..Len(facets[i][field].kv)}
         ELSE {} : i \in 1..Len(facets)}
RECURSIVE SumOver(_, _, _)
SumOver(keys, facets, field) ==
  IF keys = {} THEN 0
  ELSE LET k == CHOOSE k \in keys : TRUE
       IN  KeyTotal(facets, field, k) + SumOver(keys \ {k}, facets, field)
\* The sum of all numbers of a mapping-valued field over the facets.
FieldTotal(facets, field) == SumOver(KeysOf(facets, field), facets, field)
\* The number of facets whose categorical field has a value, a missing field
\* counting as `missing`.
ClassSize(facets, field, value, missing) ==
  Cardinality({i \in 1..Len(facets) :
                 (IF field \in DOMAIN facets[i] THEN facets[i][field] ELSE Atom(missing))
                   = Atom(value)})

InPercentRange(p) == p.den > 0 /\ 0 <= p.num /\ p.num <= 100 * p.den
IsPercent(n) == 0 <= n /\ n <= 100
PartsWithPct(parts) == {i \in 1..Len(parts) : "pct" \in DOMAIN parts[i]}

\* C11: every percentage of the dataset lies in [0, 100], and a percentage
\* whose denominator is 0 (no satisfaction signal in a collection, no
\* friction event) is 0.
C11_PercentagesInRange ==
  HasData =>
    /\ InPercentRange(main_data.goals_achieved_pct)
    /\ InPercentRange(main_data.helpful_pct)
    /\ InPercentRange(main_data.friction_pct)
    /\ \A i \in 1..Len(main_data.outcomes) : InPercentRange(main_data.outcomes[i].pct)
    /\ \A i \in PartsWithPct(main_data.friction_insight) :
          IsPercent(main_data.friction_insight[i].pct)
    /\ \A i \in PartsWithPct(main_data.excels_text) : IsPercent(main_data.excels_text[i].pct)
    /\ \A i \in PartsWithPct(main_data.struggles_text) :
          IsPercent(main_data.struggles_text[i].pct)
    /\ main_data.comparison # JNull =>
         /\ \A r \in 2..4 : /\ IsPercent(main_data.comparison.rows[r].native)
                            /\ IsPercent(main_data.comparison.rows[r].deep)
         /\ FieldTotal(main_facets, "user_satisfaction_counts") = 0
              => main_data.comparison.rows[2].deep = 0
         /\ FieldTotal(native_facets_dir, "user_satisfaction_counts") = 0
              => main_data.comparison.rows[2].native = 0
    /\ FieldTotal(main_facets, "friction_counts") = 0 =>
         PartsWithPct(main_data.struggles_text) = {}

\* C11 witness: a comparison in which the analysed facets carry no
\* satisfaction signal (rate 0) and the baseline does (rate above 0).
C11_Witness ==
  /\ HasData
  /\ main_data.comparison # JNull
  /\ FieldTotal(main_facets, "user_satisfaction_counts") = 0
  /\ main_data.comparison.rows[2].deep = 0
  /\ FieldTotal(native_facets_dir, "user_satisfaction_counts") > 0
  /\ main_data.comparison.rows[2].native > 0

\* The thresholds of the recommendations as the specification states them,
\* over the totals read off the facets.
FrictionOf(key) == KeyTotal(main_facets, "friction_counts", key)
ResearchGoals == KeyTotal(main_facets, "goal_categories", "research")
Fired ==
  {t \in {"context_overflow", "tool_failure", "fabricated_data", "wrong_approach",
          "research", "missed_context"} :
     \/ t = "context_overflow" /\ FrictionOf("context_overflow") >= 3
     \/ t = "tool_failure" /\ FrictionOf("tool_failure") >= 5
     \/ t = "fabricated_data" /\ FrictionOf("fabricated_data") >= 1
     \/ t = "wrong_approach" /\ FrictionOf("wrong_approach") >= 5
     \/ t = "research" /\ 100 * ResearchGoals > 30 * Total
     \/ t = "missed_context" /\ FrictionOf("missed_context") >= 3}
TitleOf ==
  [context_overflow |-> "Manage Session Length",
   tool_failure |-> "Add Subagent Limits",
   fabricated_data |-> "Add Data Verification Guardrails",
   wrong_approach |-> "Provide More Upfront Constraints",
   research |-> "Build a Research Skill",
   missed_context |-> "Start Sessions with Context Loading"]
Titles(recs) == [i \in 1..Len(recs) |-> recs[i].title]

\* C12: the list of recommendations has between 1 and 5 elements, and when
\* at most 4 gated recommendations fire the monthly recommendation is in it,
\* once, as its last element.
C12_MonthlyLast ==
  HasData =>
    LET recs == main_data.recommendations
    IN  /\ Len(recs) >= 1
        /\ Len(recs) <= 5
        /\ Cardinality(Fired) <= 4 =>
             /\ recs[Len(recs)].title = "Run Deep Insights Monthly"
             /\ \A i \in 1..(Len(recs) - 1) : recs[i].title # "Run Deep Insights Monthly"
             /\ Len(recs) = Cardinality(Fired) + 1

\* C12 witness: exactly 4 gated recommendations fire and the monthly one
\* takes the 5th slot.
C12_Witness ==
  /\ HasData
  /\ Cardinality(Fired) = 4
  /\ Len(main_data.recommendations) = 5
  /\ main_data.recommendations[5].title = "Run Deep Insights Monthly"

\* The candidates in the order of the specification: the gated ones that
\* fire, then the monthly one.
CandidateOrder ==
  <<"context_overflow", "tool_failure", "fabricated_data", "wrong_approach", "research",
    "missed_context">>
RECURSIVE FiredTitles(_)
FiredTitles(order) ==
  IF order = << >> THEN << >>
  ELSE (IF order[1] \in Fired THEN << TitleOf[order[1]] >> ELSE << >>)
       \o FiredTitles(Tail(order))
Candidates == Append(FiredTitles(CandidateOrder), "Run Deep Insights Monthly")

\* C19: the recommendations are the first 5 candidates, the candidates being
\* the gated ones whose threshold holds, in the fixed order, then the
\* monthly one.
C19_FirstFiveCandidates ==
  HasData =>
    Titles(main_data.recommendations)
      = [i \in 1..(IF Len(Candidates) < 5 THEN Len(Candidates) ELSE 5) |-> Candidates[i]]

\* C19 witness: all six gated candidates fire, each count exactly on its
\* threshold, and the sixth and the monthly one are cut off.
C19_Witness ==
  /\ HasData
  /\ Cardinality(Fired) = 6
  /\ FrictionOf("context_overflow") = 3
  /\ FrictionOf("tool_failure") = 5
  /\ FrictionOf("fabricated_data") = 1
  /\ FrictionOf("wrong_approach") = 5
  /\ FrictionOf("missed_context") = 3
  /\ Len(main_data.recommendations) = 5
  /\ main_data.recommendations[5].title = "Build a Research Skill"

\* The facets have been read, by main or by a direct call of
\* build_report_data.
FacetsRead ==
  \/ rpc \in {"loaded", "built", "crashed", "written", "returned", "exit_build", "raised"}
  \/ rpc = "exit" /\ all_facets_json # Absent
\* Every friction_counts is missing or a mapping to numbers.
WellFormedFriction(facets) ==
  \A i \in 1..Len(facets) :
    "friction_counts" \in DOMAIN facets[i] =>
      /\ facets[i]["friction_counts"].t = "dict"
      /\ \A j \in 1..Len(facets[i]["friction_counts"].kv) :
            facets[i]["friction_counts"].kv[j][2].t = "num"

FrictionFacets ==
  {i \in 1..Total :
     /\ "friction_counts" \in DOMAIN main_facets[i]
     /\ main_facets[i]["friction_counts"].t = "dict"
     /\ \E j \in 1..Len(main_facets[i]["friction_counts"].kv) :
           /\ main_facets[i]["friction_counts"].kv[j][2].t = "num"
           /\ main_facets[i]["friction_counts"].kv[j][2].n > 0}
\* p = 100 * count / Total, as an equality of fractions
IsShare(p, count) == p.den > 0 /\ p.num * Total = 100 * count * p.den

\* C14: goals_achieved_pct, helpful_pct and friction_pct are 100 times the
\* number of facets with a fully or mostly achieved outcome, with an
\* essential or very helpful rating, with at least one positive friction
\* count, over the number of facets.
C14_HeadlinePercentages ==
  HasData =>
    /\ main_data.total_sessions = Total
    /\ IsShare(main_data.goals_achieved_pct,
               ClassSize(main_facets, "outcome", "fully_achieved", "unclear")
                 + ClassSize(main_facets, "outcome", "mostly_achieved", "unclear"))
    /\ IsShare(main_data.helpful_pct,
               ClassSize(main_facets, "claude_helpfulness", "essential", "unknown")
                 + ClassSize(main_facets, "claude_helpfulness", "very_helpful", "unknown"))
    /\ IsShare(main_data.friction_pct, Cardinality(FrictionFacets))
    /\ main_data.friction_count = Cardinality(FrictionFacets)

\* C14 witness: 3 facets with the outcomes fully_achieved, not_achieved and
\* abandoned, 33% of goals achieved, and a facet whose friction counts are
\* not all positive.
C14_Witness ==
  /\ HasData
  /\ Total = 3
  /\ \A i \in 1..3 : "outcome" \in DOMAIN main_facets[i]
  /\ main_facets[1]["outcome"] = Atom("fully_achieved")
  /\ main_facets[2]["outcome"] = Atom("not_achieved")
  /\ main_facets[3]["outcome"] = Atom("abandoned")
  /\ RoundPercent(main_data.goals_achieved_pct) = 33
  /\ Cardinality(FrictionFacets) = 1

\* The classes of outcome in the order of the specification, and the entry
\* the list must hold for a class.
SeverityOrder ==
  <<"fully_achieved", "mostly_achieved", "partially_achieved", "not_achieved", "abandoned",
    "unclear">>
SeverityLabel ==
  [fully_achieved |-> "Fully Achieved", mostly_achieved |-> "Mostly Achieved",
   partially_achieved |-> "Partially Achieved", not_achieved |-> "Not Achieved",
   abandoned |-> "Abandoned", unclear |-> "Unclear"]
OutcomeSize(class) == ClassSize(main_facets, "outcome", class, "unclear")
\* The position in the list of the entry of a class, 0 when it has none.
EntryAt(list, class) ==
  LET hits == {i \in 1..Len(list) : list[i].label = SeverityLabel[class]}
  IN  IF hits = {} THEN 0 ELSE CHOOSE i \in hits : TRUE

\* C15: the outcomes list holds one entry for each class of outcome found in
\* at least one facet and no other, with the number of facets of the class
\* (a facet without outcome being of class unclear), in the order
\* fully_achieved, mostly_achieved, partially_achieved, not_achieved,
\* abandoned, unclear.
C15_OutcomesInSeverityOrder ==
  HasData =>
    LET list == main_data.outcomes
    IN  /\ \A i \in 1..Len(list) :
              \E k \in 1..Len(SeverityOrder) : list[i].label = SeverityLabel[SeverityOrder[k]]
        /\ \A i, j \in 1..Len(list) : i # j => list[i].label # list[j].label
        /\ \A k \in 1..Len(SeverityOrder) :
              LET class == SeverityOrder[k]
              IN  /\ (EntryAt(list, class) # 0) <=> (OutcomeSize(class) > 0)
                  /\ EntryAt(list, class) # 0 =>
                       list[EntryAt(list, class)].count = OutcomeSize(class)
        /\ \A k, l \in 1..Len(SeverityOrder) :
              (k < l /\ EntryAt(list, SeverityOrder[k]) # 0 /\ EntryAt(list, SeverityOrder[l]) # 0)
                => EntryAt(list, SeverityOrder[k]) < EntryAt(list, SeverityOrder[l])

\* C15 witness: 4 facets, with the outcomes fully_achieved, not_achieved,
\* abandoned and none, listed as Fully Achieved 1, Not Achieved 1,
\* Abandoned 1, Unclear 1.
C15_Witness ==
  /\ HasData
  /\ Total = 4
  /\ "outcome" \notin DOMAIN main_facets[4]
  /\ Len(main_data.outcomes) = 4
  /\ main_data.outcomes[1].label = "Fully Achieved" /\ main_data.outcomes[1].count = 1
  /\ main_data.outcomes[2].label = "Not Achieved" /\ main_data.outcomes[2].count = 1
  /\ main_data.outcomes[3].label = "Abandoned" /\ main_data.outcomes[3].count = 1
  /\ main_data.outcomes[4].label = "Unclear" /\ main_data.outcomes[4].count = 1

\* C17 as stated: the insight holds the "friction concentrates" statement
\* only when the top 5 sessions account for more than half of the friction
\* events.
C17_ConcentratesOnlyOnMajority ==
  HasData =>
    \A i \in 1..Len(main_data.friction_insight) :
       main_data.friction_insight[i].kind = "friction_concentrates" =>
         2 * main_data.friction_insight[i].events > main_data.friction_insight[i].of

\* C18 as stated: a mapping-valued field that is null or holds a value that
\* is not a number does not make the engine raise: a dataset is returned, and
\* its totals are the sums of the numbers.
C18_MalformedCountsIgnored ==
  /\ rpc \notin {"crashed", "raised"}
  /\ HasData =>
       main_data.total_friction_events = FieldTotal(main_facets, "friction_counts")

\* The total friction of a facet, and the facets in which it is positive.
FacetFriction(i) == FieldTotal(<<main_facets[i]>>, "friction_counts")
PositiveFacets == {i \in 1..Total : FacetFriction(i) > 0}
\* The facet an entry of top_friction_sessions was made from, 0 if none.
FacetOf(entry) ==
  LET hits == {i \in 1..Total : /\ "session_id" \in DOMAIN main_facets[i]
                                /\ main_facets[i]["session_id"] = entry.session_id}
  IN  IF hits = {} THEN 0 ELSE CHOOSE i \in hits : TRUE
PositiveItems(i) ==
  {j \in 1..Len(main_facets[i]["friction_counts"].kv) :
     main_facets[i]["friction_counts"].kv[j][2].n > 0}

\* C20: top_friction_sessions holds facets of positive total friction only,
\* each once and with its total, all of them when they are at most 10 and
\* else 10 of them, in non-increasing order of total; no facet left out has
\* a larger total than one listed; the breakdown of an entry holds the
\* positive counts of its facet, all of them, in non-increasing order.
C20_TopFrictionSessions ==
  HasData =>
    LET top == main_data.top_friction_sessions
        listed == {FacetOf(top[j]) : j \in 1..Len(top)}
    IN  /\ Len(top) = MinOf(10, Cardinality(PositiveFacets))
        /\ listed \subseteq PositiveFacets
        /\ Cardinality(listed) = Len(top)
        /\ \A j \in 1..Len(top) : top[j].friction_total = FacetFriction(FacetOf(top[j]))
        /\ \A j \in 1..(Len(top) - 1) : top[j].friction_total >= top[j + 1].friction_total
        /\ \A i \in PositiveFacets \ listed :
              \A j \in 1..Len(top) : FacetFriction(i) <= top[j].friction_total
        /\ \A j \in 1..Len(top) :
              LET b == top[j].frictions
              IN  /\ Len(b) = Cardinality(PositiveItems(FacetOf(top[j])))
                  /\ \A k \in 1..Len(b) : b[k][2] > 0
                  /\ \A k \in 1..(Len(b) - 1) : b[k][2] >= b[k + 1][2]

\* C20 witness: more than 10 facets with friction, of different totals and
\* not in order of total, of which 10 are listed; an entry with a breakdown
\* of several counts.
C20_Witness ==
  /\ HasData
  /\ Cardinality(PositiveFacets) > 10
  /\ Len(main_data.top_friction_sessions) = 10
  /\ main_data.top_friction_sessions[1].friction_total
       > main_data.top_friction_sessions[10].friction_total
  /\ \E i, j \in PositiveFacets : i < j /\ FacetFriction(i) < FacetFriction(j)
  /\ Len(main_data.top_friction_sessions[1].frictions) > 1
  /\ main_data.top_friction_sessions[1].frictions[1][2]
       > main_data.top_friction_sessions[1].frictions[2][2]

\* The three classes of anomaly, as sets of positions in the facets.
ExplosionClass ==
  IF main_manifest = NoManifest THEN {}
  ELSE {i \in 1..Total :
          \E j \in 1..Len(main_manifest.sessions) :
             /\ "session_id" \in DOMAIN main_facets[i]
             /\ main_manifest.sessions[j].session_id = main_facets[i]["session_id"]
             /\ main_manifest.sessions[j].subagent_count >= 10}
OutcomeClass(outcome) ==
  {i \in 1..Total : /\ "outcome" \in DOMAIN main_facets[i]
                    /\ main_facets[i]["outcome"] = Atom(outcome)}
AnomalyClass(kind) ==
  IF kind = "subagents" THEN ExplosionClass ELSE OutcomeClass(kind)
\* The k-th position of a class, in the order of the facets.
Nth(class, k) == CHOOSE i \in class : Cardinality({j \in class : j <= i}) = k
AnomalyKinds == <<"subagents", "not_achieved", "abandoned">>
AnomalyAt(list, kind) ==
  LET hits == {i \in 1..Len(list) : list[i].kind = kind}
  IN  IF hits = {} THEN 0 ELSE CHOOSE i \in hits : TRUE

\* C21: the anomaly list holds at most one record per class, in the order
\* subagent explosion, not achieved, abandoned; the record of a class is
\* there exactly when a facet is in the class, gives the size of the class,
\* and lists the session ids of its first facets, at most 5, each cut to 8
\* characters; without a manifest there is no subagent record.
C21_Anomalies ==
  HasData =>
    LET list == main_data.anomalies
    IN  /\ Len(list) <= 3
        /\ \A i \in 1..Len(list) : \E k \in 1..3 : list[i].kind = AnomalyKinds[k]
        /\ \A i, j \in 1..Len(list) : i < j => list[i].kind # list[j].kind
        /\ \A k, l \in 1..3 :
              (k < l /\ AnomalyAt(list, AnomalyKinds[k]) # 0
                     /\ AnomalyAt(list, AnomalyKinds[l]) # 0)
                => AnomalyAt(list, AnomalyKinds[k]) < AnomalyAt(list, AnomalyKinds[l])
        /\ \A k \in 1..3 :
              LET class == AnomalyClass(AnomalyKinds[k])
                  at == AnomalyAt(list, AnomalyKinds[k])
              IN  /\ (at # 0) <=> (class # {})
                  /\ at # 0 =>
                       /\ list[at].count = Cardinality(class)
                       /\ Len(list[at].ids) = MinOf(5, Cardinality(class))
                       /\ \A n \in 1..Len(list[at].ids) :
                             /\ StrLen(list[at].ids[n]) <= 8
                             /\ list[at].ids[n]
                                  = Slice(main_facets[Nth(class, n)]["session_id"].s, 8)
        /\ main_manifest = NoManifest => AnomalyAt(list, "subagents") = 0

\* C21 witness: the three records at once, the not-achieved class of more
\* than 5 facets with 5 ids listed, and an id longer than 8 characters cut.
C21_Witness ==
  /\ HasData
  /\ Len(main_data.anomalies) = 3
  /\ main_data.anomalies[1].kind = "subagents"
  /\ main_data.anomalies[2].kind = "not_achieved"
  /\ main_data.anomalies[2].count > 5
  /\ Len(main_data.anomalies[2].ids) = 5
  /\ main_data.anomalies[3].kind = "abandoned"
  /\ \E n \in 1..5 :
        StrLen(main_facets[Nth(OutcomeClass("not_achieved"), n)]["session_id"].s) > 8

RECURSIVE SumCounts(_)
SumCounts(list) == IF list = << >> THEN 0 ELSE list[1].count + SumCounts(Tail(list))
SixOutcomes ==
  {"fully_achieved", "mostly_achieved", "partially_achieved", "not_achieved", "abandoned",
   "unclear"}
FiveTiers ==
  {"essential", "very_helpful", "moderately_helpful", "slightly_helpful", "unhelpful"}
\* The facets whose outcome, unclear when missing, is one of the six classes,
\* and those whose helpfulness is one of the five tiers.
KnownOutcome ==
  {i \in 1..Total :
     \E o \in SixOutcomes :
        (IF "outcome" \in DOMAIN main_facets[i] THEN main_facets[i]["outcome"]
         ELSE Atom("unclear")) = Atom(o)}
KnownHelpfulness ==
  {i \in 1..Total :
     /\ "claude_helpfulness" \in DOMAIN main_facets[i]
     /\ \E h \in FiveTiers : main_facets[i]["claude_helpfulness"] = Atom(h)}

\* C29: the counts of the outcomes list add up to the number of facets whose
\* outcome is one of the six classes, hence to at most total_sessions and to
\* total_sessions exactly when every facet is one; the counts of the
\* helpfulness list add up to the number of facets whose helpfulness is one
\* of the five tiers, a facet without the field being in no entry.
C29_ListCountsAddUp ==
  HasData =>
    /\ SumCounts(main_data.outcomes) = Cardinality(KnownOutcome)
    /\ SumCounts(main_data.outcomes) <= main_data.total_sessions
    /\ (SumCounts(main_data.outcomes) = main_data.total_sessions)
         <=> (KnownOutcome = 1..Total)
    /\ SumCounts(main_data.helpfulness) = Cardinality(KnownHelpfulness)
    /\ \A i \in 1..Len(main_data.helpfulness) :
          \E h \in FiveTiers :
             main_data.helpfulness[i].label = HELPFULNESS_LABELS[h]

\* C29 witness: a facet with an outcome and a helpfulness outside the known
\* values and a facet without either field; the outcome counts add up to
\* less than the number of facets.
C29_Witness ==
  /\ HasData
  /\ Total = 2
  /\ KnownOutcome = {2}
  /\ "claude_helpfulness" \in DOMAIN main_facets[1]
  /\ "claude_helpfulness" \notin DOMAIN main_facets[2]
  /\ SumCounts(main_data.outcomes) = 1
  /\ main_data.helpfulness = << >>

\* The friction counts of every facet are non-negative integers: the field is
\* missing or a mapping to numbers none of which is negative.
NonNegativeFriction(facets) ==
  /\ WellFormedFriction(facets)
  /\ \A i \in 1..Len(facets) :
        "friction_counts" \in DOMAIN facets[i] =>
          \A j \in 1..Len(facets[i]["friction_counts"].kv) :
             facets[i]["friction_counts"].kv[j][2].n >= 0
\* The facets that have the friction field with all counts zero, and the
\* collection in which these facets have lost the field.
AllZeroFacets ==
  {i \in 1..Total :
     /\ "friction_counts" \in DOMAIN main_facets[i]
     /\ main_facets[i]["friction_counts"].t = "dict"
     /\ \A j \in 1..Len(main_facets[i]["friction_counts"].kv) :
           main_facets[i]["friction_counts"].kv[j][2] = JNum(0)}
WithoutZeroFriction ==
  [i \in 1..Total |->
     IF i \in AllZeroFacets
     THEN [k \in DOMAIN main_facets[i] \ {"friction_counts"} |-> main_facets[i][k]]
     ELSE main_facets[i]]
\* The sum of friction_total over the entries of a list.
RECURSIVE SumTotals(_)
SumTotals(list) ==
  IF list = << >> THEN 0 ELSE list[1].friction_total + SumTotals(Tail(list))
RECURSIVE SumFriction(_)
SumFriction(S) ==
  IF S = {} THEN 0
  ELSE LET i == CHOOSE i \in S : TRUE IN FacetFriction(i) + SumFriction(S \ {i})

\* C30: when the friction counts are non-negative integers,
\* total_friction_events is the sum of the friction totals of the facets
\* with positive friction, friction_count is the number of these facets,
\* which is the size of top_friction_sessions before the cut to 10, the
\* number of sessions reported with zero friction is total_sessions minus
\* friction_count and not negative, and the friction figures are those of
\* the collection in which the facets with all counts zero have no friction
\* field.
C30_FrictionTotals ==
  (HasData /\ NonNegativeFriction(main_facets)) =>
    LET top == main_data.top_friction_sessions
        alt == build_report_data(WithoutZeroFriction, main_manifest, native_facets_dir)
    IN  /\ main_data.total_friction_events = SumFriction(PositiveFacets)
        /\ main_data.friction_count = Cardinality(PositiveFacets)
        /\ Len(top) = MinOf(TOP_FRICTION_SESSIONS_CAP, main_data.friction_count)
        /\ main_data.friction_count <= TOP_FRICTION_SESSIONS_CAP
              => SumTotals(top) = main_data.total_friction_events
        /\ main_data.total_sessions - main_data.friction_count >= 0
        /\ \A p \in 1..Len(main_data.friction_insight) :
              main_data.friction_insight[p].kind = "frictionless" =>
                /\ main_data.friction_insight[p].count
                     = main_data.total_sessions - main_data.friction_count
                /\ main_data.friction_insight[p].count >= 0
        /\ alt.total_friction_events = main_data.total_friction_events
        /\ alt.friction_count = main_data.friction_count
        /\ alt.friction_pct = main_data.friction_pct
        /\ alt.top_friction_sessions = top
        /\ alt.friction_insight = main_data.friction_insight

\* C30 witness: a facet with no friction field, a facet whose counts are all
\* zero and a facet with 3 friction events; one session with friction, two
\* reported without.
C30_Witness ==
  /\ HasData
  /\ NonNegativeFriction(main_facets)
  /\ Total = 3
  /\ AllZeroFacets = {1}
  /\ "friction_counts" \notin DOMAIN main_facets[2]
  /\ PositiveFacets = {3}
  /\ main_data.friction_count = 1
  /\ main_data.total_friction_events = 3
  /\ \E p \in 1..Len(main_data.friction_insight) :
        /\ main_data.friction_insight[p].kind = "frictionless"
        /\ main_data.friction_insight[p].count = 2

====
